---- MODULE Spec2Model ----
(***************************************************************************)
(* A model of the zebra_crypto crate of ZebraSign: the SAG ring signature  *)
(* over the Ristretto group, identity-bound keys, signed messages and the  *)
(* ASCII codecs.                                                           *)
(*                                                                         *)
(* Representation.  The Ristretto group is cyclic of prime order l with    *)
(* generator G, so a point is represented by its discrete logarithm and    *)
(* mul_base by the identity on that representation; the group order is     *)
(* scaled down to Q.  SHA3-512 followed by reduction mod l is an ideal     *)
(* hash: Scalar::from_hash of a hash state is a fresh indeterminate named  *)
(* by the bytes the state absorbed, and scalars are the affine forms over  *)
(* Z_Q in those indeterminates (a function from atoms to non-zero          *)
(* coefficients; the atom <<>> is the constant 1).  Two scalars are equal  *)
(* iff their forms are equal, i.e. the hash has no collisions and no       *)
(* algebraic relations.                                                    *)
(***************************************************************************)
EXTENDS Integers, Sequences, FiniteSets, TLC

\* ------------------------------------------------------------------ bounds

\* Largest number of other ring members handed to Signature::sign.
MaxOthers == 2

\* The I/O operations that fail in one behaviour of the store.
MaxFaults == 1

\* ---------------------------------------------------- ristretto.rs: scalars

\* Order of the scalar field / of the group (l in curve25519_dalek), scaled down.
Q == 3

\* The atom of the constant term of a scalar.
One == <<>>

\* The coefficient of atom x in scalar f.
Coef(f, x) == IF x \in DOMAIN f THEN f[x] ELSE 0

\* A canonical scalar with value n mod Q and no hash indeterminate.
ScalarOf(n) == [x \in {y \in {One} : n % Q # 0} |-> n % Q]

Scalar_ZERO == ScalarOf(0)

\* The scalars Scalar::random() can return in the model.
RandomScalars == {ScalarOf(n) : n \in 0..(Q - 1)}

IsConst(f) == DOMAIN f \subseteq {One}

Scalar_add(f, g) ==
    [x \in {y \in DOMAIN f \cup DOMAIN g : (Coef(f, y) + Coef(g, y)) % Q # 0}
        |-> (Coef(f, x) + Coef(g, x)) % Q]

Scalar_sub(f, g) ==
    [x \in {y \in DOMAIN f \cup DOMAIN g : (Coef(f, y) + Q - Coef(g, y)) % Q # 0}
        |-> (Coef(f, x) + Q - Coef(g, x)) % Q]

\* n * f for an integer n.
Scale(n, f) == [x \in {y \in DOMAIN f : (n * f[y]) % Q # 0} |-> (n * f[x]) % Q]

\* Product of two scalars.  Secret keys and random samples are constants, so
\* in every product the program computes one factor is a constant; the
\* product of two non-constant forms is a fresh atom naming the factors.
Scalar_mul(f, g) ==
    IF IsConst(g) THEN Scale(Coef(g, One), f)
    ELSE IF IsConst(f) THEN Scale(Coef(f, One), g)
    ELSE [x \in {<<f, g, 0>>} |-> 1]

\* ----------------------------------------------------- ristretto.rs: points

RistrettoPoint_mul_base(s) == s

RistrettoPoint_add(p, q) == Scalar_add(p, q)

Scalar_mul_point(s, p) == Scalar_mul(s, p)

\* The compressed encoding of a point whose discrete logarithm is a constant,
\* as one byte: injective, the identity point encodes as zero, and the order
\* of the encodings is not the order of the discrete logarithms.
compress(p) == (2 * Coef(p, One)) % Q

\* The points Borsh or RistrettoPoint::random() can produce.
Points == {ScalarOf(n) : n \in 0..(Q - 1)}

\* ------------------------------------------------------------ lib.rs: SAG

\* Positions of a sequence sorted stably by key: element i goes to the place
\* after every element with a smaller key and every earlier one with the
\* same key (slice::sort_by_key is a stable sort).
Rank(keys, i) ==
    1 + Cardinality({j \in DOMAIN keys :
                        keys[j] < keys[i] \/ (keys[j] = keys[i] /\ j < i)})

sort_by_key(s, keys) ==
    [r \in DOMAIN s |-> s[CHOOSE i \in DOMAIN s : Rank(keys, i) = r]]

\* The two key extractors make_ring is called with: |k| k on points and
\* |k| k.keypoint on public keys.
key_extractor(which, k) == IF which = "keypoint" THEN k.keypoint ELSE k

\* Mutant of make_ring: the ring is left unsorted.
make_ring_unsorted(my_key, other_keys, which) == Append(other_keys, my_key)

make_ring(my_key, other_keys, which) ==
    LET ring == Append(other_keys, my_key)
    IN sort_by_key(ring, [i \in DOMAIN ring |-> compress(key_extractor(which, ring[i]))])

\* The SHA3-512 state after absorbing the message and the compressed ring:
\* the bytes absorbed, with no separator between message and points.
hash_message_and_ring(message, keys) ==
    message \o [i \in DOMAIN keys |-> compress(keys[i])]

\* hash.update(point.compress()) followed by Scalar::from_hash(hash).
Scalar_from_hash(hash, update) == [x \in {<<hash, update>>} |-> 1]

\* The indices binary_search_by_key may return: any position of the ring
\* that holds the key searched for (which one is unspecified for duplicates).
binary_search_by_key(ring, point) ==
    {i \in DOMAIN ring : compress(ring[i]) = compress(point)}

\* The loop of Signature::sign, from offset_from_my_key = offset to ring_size.
\* Indices are 1-based: index = ((my_key_index - 1 + offset) % ring_size) + 1.
RECURSIVE sign_loop(_, _, _, _, _, _, _)
sign_loop(offset, cs, next_hash_update, initial_hash, ring, responses, my_key_index) ==
    LET ring_size == Len(ring)
        index == ((my_key_index - 1 + offset) % ring_size) + 1
        c == Scalar_from_hash(initial_hash, next_hash_update)
        cs1 == [cs EXCEPT ![index] = c]
        next == RistrettoPoint_add(RistrettoPoint_mul_base(responses[index]),
                                   Scalar_mul_point(c, ring[index]))
    IN IF offset > ring_size THEN cs
       ELSE sign_loop(offset + 1, cs1, next, initial_hash, ring, responses, my_key_index)

\* Mutant of real_response: the sign of the product is wrong.
real_response_sum(a, c, my_private_value) == Scalar_add(a, Scalar_mul(c, my_private_value))

\* r_pi = a - c_pi * k_pi
real_response(a, c, my_private_value) == Scalar_sub(a, Scalar_mul(c, my_private_value))

\* Signature::sign.  The samples of Scalar::random() (responses, a) and the
\* index found by the binary search are parameters.
Signature_sign(message, my_private_value, other_public_keypoints, responses, a, my_key_index) ==
    LET my_public_keypoint == RistrettoPoint_mul_base(my_private_value)
        ring_size == Len(other_public_keypoints) + 1
        ring == make_ring(my_public_keypoint, other_public_keypoints, "point")
        initial_hash == hash_message_and_ring(message, ring)
        cs == sign_loop(1, [i \in 1..ring_size |-> Scalar_ZERO],
                        RistrettoPoint_mul_base(a), initial_hash, ring, responses,
                        my_key_index)
        resp == [responses EXCEPT
                    ![my_key_index] = real_response(a, cs[my_key_index], my_private_value)]
    IN [challenge |-> cs[1],
        ring_responses |-> [i \in 1..ring_size |-> <<ring[i], resp[i]>>]]

\* The loop of Signature::verify over ring_responses[i..].
RECURSIVE verify_loop(_, _, _, _)
verify_loop(i, reconstructed_challenge, initial_hash, ring_responses) ==
    IF i > Len(ring_responses) THEN reconstructed_challenge
    ELSE LET keypoint == ring_responses[i][1]
             response == ring_responses[i][2]
             hash_update == RistrettoPoint_add(RistrettoPoint_mul_base(response),
                                Scalar_mul_point(reconstructed_challenge, keypoint))
         IN verify_loop(i + 1, Scalar_from_hash(initial_hash, hash_update),
                        initial_hash, ring_responses)

Signature_verify(self, message) ==
    LET initial_hash ==
            hash_message_and_ring(message,
                [i \in DOMAIN self.ring_responses |-> self.ring_responses[i][1]])
    IN self.challenge = verify_loop(1, self.challenge, initial_hash, self.ring_responses)

\* ------------------------------------------------- strings and Option

None == <<>>
Some(v) == <<v>>
IsSome(o) == o # <<>>
Unwrap(o) == o[1]

\* The UTF-8 encoding of one character (a code point below 0x800).
utf8_char(c) == IF c < 128 THEN <<c>> ELSE <<192 + (c \div 64), 128 + (c % 64)>>

\* str::as_bytes: the UTF-8 encoding of a string of code points.
RECURSIVE as_bytes(_)
as_bytes(str) == IF str = <<>> THEN <<>> ELSE utf8_char(Head(str)) \o as_bytes(Tail(str))

\* char::is_control: the Unicode category Cc.
is_control(c) == c <= 31 \/ (127 <= c /\ c <= 159)

\* ----------------------------------------------------- boringascii/lib.rs

\* Mutant of BoringAscii_from_bytes: the space is let through.
BoringAscii_from_bytes_with_space(bytes) ==
    IF \E i \in DOMAIN bytes : bytes[i] < 32 \/ bytes[i] > 126 THEN None
    ELSE Some(bytes)

BoringAscii_from_bytes(bytes) ==
    IF \E i \in DOMAIN bytes : bytes[i] < 33 \/ bytes[i] > 126 THEN None
    ELSE Some(bytes)

BoringAscii_from_str(str) == BoringAscii_from_bytes(as_bytes(str))

BoringAscii_try_from(s) == BoringAscii_from_str(s)

\* ------------------------------------------------------- lib.rs: Identity

\* Mutant of Identity_new: the name is not checked.
Identity_new_any_name(name, email) ==
    IF ~IsSome(BoringAscii_from_str(email)) THEN None
    ELSE Some([name |-> name, email |-> Unwrap(BoringAscii_from_str(email))])

Identity_new(name, email) ==
    IF \E i \in DOMAIN name : is_control(name[i]) THEN None
    ELSE IF ~IsSome(BoringAscii_from_str(email)) THEN None
    ELSE Some([name |-> name, email |-> Unwrap(BoringAscii_from_str(email))])

\* The warning banner that starts every attestation image:
\* "!!!DO NOT SIGN THE FOLLOWING MESSAGE. DOING SO IS A SECURITY RISK.
\* SOMEONE IS PROBABLY TRYING TO TRICK YOU!!!"
ATTESTATION_BANNER ==
    <<33, 33, 33, 68, 79, 32, 78, 79, 84, 32, 83, 73, 71, 78, 32, 84,
      72, 69, 32, 70, 79, 76, 76, 79, 87, 73, 78, 71, 32, 77, 69, 83,
      83, 65, 71, 69, 46, 32, 68, 79, 73, 78, 71, 32, 83, 79, 32, 73,
      83, 32, 65, 32, 83, 69, 67, 85, 82, 73, 84, 89, 32, 82, 73, 83,
      75, 46, 32, 83, 79, 77, 69, 79, 78, 69, 32, 73, 83, 32, 80, 82,
      79, 66, 65, 66, 76, 89, 32, 84, 82, 89, 73, 78, 71, 32, 84, 79,
      32, 84, 82, 73, 67, 75, 32, 89, 79, 85, 33, 33, 33>>

bytes_for_attestation(self, keypoint) ==
    ATTESTATION_BANNER \o as_bytes(self.name) \o <<255>> \o self.email
        \o <<compress(keypoint)>>

\* ------------------------------------------- lib.rs: PublicKey, PrivateKey

\* Mutant of PrivateKey_public: the attestation is made again instead of
\* copied from the private key.
PrivateKey_public_regenerated(self) ==
    [holder |-> self.holder,
     version |-> "ZebraOneBeta",
     keypoint |-> RistrettoPoint_mul_base(self.key),
     holder_attestation |->
        Signature_sign(bytes_for_attestation(self.holder, RistrettoPoint_mul_base(self.key)),
                       self.key, <<>>, <<Scalar_ZERO>>, self.key, 1)]

\* Mutant of validate_attestation: a ring of more than one member passes
\* the length check.
validate_attestation_nonempty(self) ==
    /\ Len(self.holder_attestation.ring_responses) >= 1
    /\ self.holder_attestation.ring_responses[1][1] = self.keypoint
    /\ Signature_verify(self.holder_attestation,
                        bytes_for_attestation(self.holder, self.keypoint))

validate_attestation(self) ==
    IF Len(self.holder_attestation.ring_responses) # 1 THEN FALSE
    ELSE IF self.holder_attestation.ring_responses[1][1] # self.keypoint THEN FALSE
    ELSE Signature_verify(self.holder_attestation,
                          bytes_for_attestation(self.holder, self.keypoint))

\* PrivateKey::new.  key is the sample of Scalar::random(); responses and a
\* are the samples Signature::sign draws for the one-member ring.
PrivateKey_new(holder, key, responses, a) ==
    [holder |-> holder,
     key |-> key,
     holder_attestation |->
        Signature_sign(bytes_for_attestation(holder, RistrettoPoint_mul_base(key)),
                       key, <<>>, responses, a, 1)]

PrivateKey_public(self) ==
    [holder |-> self.holder,
     version |-> "ZebraOneBeta",
     keypoint |-> RistrettoPoint_mul_base(self.key),
     holder_attestation |-> self.holder_attestation]

\* -------------------------------------------------- lib.rs: SignedMessage

\* Mutant of filter_my_key: nothing is removed.
filter_nothing(other_keys, my_public_key) == other_keys

\* other_keys.iter().cloned().filter(|k| k != &my_public_key)
filter_my_key(other_keys, my_public_key) ==
    SelectSeq(other_keys, LAMBDA k : k # my_public_key)

\* sig.ring_responses zipped with the ring of public keys: (p, s) pairs, as
\* many as the shorter of the two.
zip_ring(ring_responses, ring) ==
    LET n == IF Len(ring_responses) < Len(ring) THEN Len(ring_responses) ELSE Len(ring)
    IN [i \in 1..n |-> <<ring[i], ring_responses[i][2]>>]

\* Mutant of SignedMessage_sign: the ring of public keys is left in the order
\* given (the others, then the signer) instead of sorted by keypoint.
SignedMessage_sign_unsorted(message, my_key, other_keys, responses, a, my_key_index) ==
    LET my_public_key == PrivateKey_public(my_key)
        others == filter_my_key(other_keys, my_public_key)
        sig == Signature_sign(as_bytes(message), my_key.key,
                              [i \in DOMAIN others |-> others[i].keypoint],
                              responses, a, my_key_index)
        ring == Append(others, my_public_key)
    IN [message |-> message,
        challenge |-> sig.challenge,
        ring |-> zip_ring(sig.ring_responses, ring)]

SignedMessage_sign(message, my_key, other_keys, responses, a, my_key_index) ==
    LET my_public_key == PrivateKey_public(my_key)
        others == filter_my_key(other_keys, my_public_key)
        sig == Signature_sign(as_bytes(message), my_key.key,
                              [i \in DOMAIN others |-> others[i].keypoint],
                              responses, a, my_key_index)
        ring == make_ring(my_public_key, others, "keypoint")
    IN [message |-> message,
        challenge |-> sig.challenge,
        ring |-> zip_ring(sig.ring_responses, ring)]

SignedMessage_signature(self) ==
    [challenge |-> self.challenge,
     ring_responses |-> [i \in DOMAIN self.ring |->
                            <<self.ring[i][1].keypoint, self.ring[i][2]>>]]

\* Mutant of SignedMessage_verify: the attestations are not validated.
SignedMessage_verify_unattested(self) ==
    Signature_verify(SignedMessage_signature(self), as_bytes(self.message))

SignedMessage_verify(self) ==
    IF \E i \in DOMAIN self.ring : ~validate_attestation(self.ring[i][1]) THEN FALSE
    ELSE Signature_verify(SignedMessage_signature(self), as_bytes(self.message))

\* ------------------------------------------------- empty values

\* Values of fields that hold nothing yet.
NoSignature == [challenge |-> Scalar_ZERO, ring_responses |-> <<>>]

NoSignedMessage == [message |-> <<>>, challenge |-> Scalar_ZERO, ring |-> <<>>]

\* ------------------------------------------------ lib.rs: fixed strings

\* "ZebraSign 1.0 Beta"
ZEBRA_ONE_BETA ==
    <<90, 101, 98, 114, 97, 83, 105, 103, 110, 32, 49, 46, 48, 32, 66, 101,
      116, 97>>

\* "The following message has been signed using ZebraSign 1.0 Beta:"
SIGNED_MESSAGE_FIRST_LINE ==
    <<84, 104, 101, 32, 102, 111, 108, 108, 111, 119, 105, 110, 103, 32, 109, 101,
      115, 115, 97, 103, 101, 32, 104, 97, 115, 32, 98, 101, 101, 110, 32, 115,
      105, 103, 110, 101, 100, 32, 117, 115, 105, 110, 103, 32, 90, 101, 98, 114,
      97, 83, 105, 103, 110, 32, 49, 46, 48, 32, 66, 101, 116, 97, 58>>

\* """
SIGNED_MESSAGE_SECOND_LINE == <<34, 34, 34>>

SIGNED_MESSAGE_INFIX_FIRST_LINE == <<34, 34, 34>>

SIGNED_MESSAGE_INFIX_SECOND_LINE == <<>>

\* "It was signed by someone with a private key corresponding to one of
\* these fingerprints:"
SIGNED_MESSAGE_INFIX_THIRD_LINE ==
    <<73, 116, 32, 119, 97, 115, 32, 115, 105, 103, 110, 101, 100, 32, 98, 121,
      32, 115, 111, 109, 101, 111, 110, 101, 32, 119, 105, 116, 104, 32, 97, 32,
      112, 114, 105, 118, 97, 116, 101, 32, 107, 101, 121, 32, 99, 111, 114, 114,
      101, 115, 112, 111, 110, 100, 105, 110, 103, 32, 116, 111, 32, 111, 110, 101,
      32, 111, 102, 32, 116, 104, 101, 115, 101, 32, 102, 105, 110, 103, 101, 114,
      112, 114, 105, 110, 116, 115, 58>>

SIGNED_MESSAGE_INFIX_FOURTH_LINE == <<>>

SIGNED_MESSAGE_SUFFIX_FIRST_LINE == <<>>

\* "To verify this signature, paste this entire message into the ZebraSign
\* app (starting with "The following message" and ending with this line)."
SIGNED_MESSAGE_SUFFIX_SECOND_LINE ==
    <<84, 111, 32, 118, 101, 114, 105, 102, 121, 32, 116, 104, 105, 115, 32, 115,
      105, 103, 110, 97, 116, 117, 114, 101, 44, 32, 112, 97, 115, 116, 101, 32,
      116, 104, 105, 115, 32, 101, 110, 116, 105, 114, 101, 32, 109, 101, 115, 115,
      97, 103, 101, 32, 105, 110, 116, 111, 32, 116, 104, 101, 32, 90, 101, 98,
      114, 97, 83, 105, 103, 110, 32, 97, 112, 112, 32, 40, 115, 116, 97, 114,
      116, 105, 110, 103, 32, 119, 105, 116, 104, 32, 34, 84, 104, 101, 32, 102,
      111, 108, 108, 111, 119, 105, 110, 103, 32, 109, 101, 115, 115, 97, 103, 101,
      34, 32, 97, 110, 100, 32, 101, 110, 100, 105, 110, 103, 32, 119, 105, 116,
      104, 32, 116, 104, 105, 115, 32, 108, 105, 110, 101, 41, 46>>

\* The 85 characters of the Z85 alphabet, in digit order.
Z85_ALPHABET ==
    <<48, 49, 50, 51, 52, 53, 54, 55, 56, 57, 97, 98, 99, 100, 101, 102,
      103, 104, 105, 106, 107, 108, 109, 110, 111, 112, 113, 114, 115, 116, 117, 118,
      119, 120, 121, 122, 65, 66, 67, 68, 69, 70, 71, 72, 73, 74, 75, 76,
      77, 78, 79, 80, 81, 82, 83, 84, 85, 86, 87, 88, 89, 90, 46, 45,
      58, 43, 61, 94, 33, 47, 42, 63, 38, 60, 62, 40, 41, 91, 93, 123,
      125, 64, 37, 36, 35>>

\* Messages handed to Signature::sign and Signature::verify, as bytes.
Msgs == {<<77>>, <<77, 0>>}

\* Sequences over S of length at most n.
SeqsUpTo(S, n) == UNION {[1..m -> S] : m \in 0..n}

\* The vectors of response samples for a ring of n members.
ResponseSamples(n) == [1..n -> RandomScalars]

\* Names and emails of key holders in the rings of the signed-message machine.
Names == {<<65>>, <<66>>}

Emails == {<<101>>, <<102>>}

\* The identities keys are made for: every name, with the first email.
Holders == {Unwrap(Identity_new(n, <<101>>)) : n \in Names}

\* The sample of the attestation's ring closing scalar in the keys below.
ATTESTATION_SAMPLE == ScalarOf(1)

\* The private keys PrivateKey::new makes for the holders.
PrivateKeys ==
    {PrivateKey_new(h, k, <<k>>, ATTESTATION_SAMPLE) : h \in Holders, k \in RandomScalars}

\* Public keys as Borsh deserialization (which checks no attestation) can
\* return them: a key of PrivateKeys with the holder replaced.
ReheldKeys ==
    {[PrivateKey_public(k) EXCEPT !.holder = h] : k \in PrivateKeys, h \in Holders}

\* The public keys a caller can hand to SignedMessage::sign.
PublicKeys == {PrivateKey_public(k) : k \in PrivateKeys} \cup ReheldKeys

\* The samples of one Signature::sign call on a ring of n members that the
\* signed-message machine draws: a and the n responses, pairwise different
\* as far as Q allows.
SignSamples(n) ==
    {[a |-> ScalarOf(x), responses |-> [i \in 1..n |-> ScalarOf(x + i)]] : x \in 0..(Q - 1)}

\* ------------------------------------------------ pools of keys and texts

\* Names and emails of the keys that are validated, printed and parsed:
\* "A", "A B", "A <", "> B", "]", "", "A <b>" and a name with the two-byte
\* character U+00E9; "e", "<", "<e>" and the empty email.
KeyNames ==
    {<<65>>, <<65, 32, 66>>, <<65, 32, 60>>, <<62, 32, 66>>, <<93>>, <<>>,
     <<65, 32, 60, 98, 62>>, <<233>>}

KeyEmails == {<<101>>, <<60>>, <<60, 101, 62>>, <<>>}

KeyHolders == {Unwrap(Identity_new(n, e)) : n \in KeyNames, e \in KeyEmails}

\* Private keys as PrivateKey::new makes them: one per holder, and one per
\* secret scalar for the holders of the signed-message machine.
KeyPrivateKeys ==
    {PrivateKey_new(h, ScalarOf(1), <<ScalarOf(1)>>, ATTESTATION_SAMPLE) : h \in KeyHolders}
    \cup PrivateKeys

ValidKeys == {PrivateKey_public(k) : k \in KeyPrivateKeys}

\* A key whose attestation is a genuine ring signature of its holder over
\* the attestation image, made with one more ring member.
TwoMemberAttestations ==
    UNION {UNION {
        {[PrivateKey_public(k) EXCEPT !.holder_attestation =
            Signature_sign(bytes_for_attestation(k.holder, RistrettoPoint_mul_base(k.key)),
                           k.key, <<p>>, <<ScalarOf(1), ScalarOf(2)>>,
                           ATTESTATION_SAMPLE, index)] :
            index \in binary_search_by_key(
                          make_ring(RistrettoPoint_mul_base(k.key), <<p>>, "point"),
                          RistrettoPoint_mul_base(k.key))} :
        p \in Points} : k \in PrivateKeys}

\* A key whose attestation has no ring member.
EmptyAttestations ==
    {[PrivateKey_public(k) EXCEPT !.holder_attestation.ring_responses = <<>>] :
        k \in PrivateKeys}

\* A key whose keypoint is not the point its attestation was made for.
MovedKeypoints ==
    UNION {{[PrivateKey_public(k) EXCEPT !.keypoint = p] :
                p \in Points \ {RistrettoPoint_mul_base(k.key)}} : k \in PrivateKeys}

\* The PublicKey values handed to validate_attestation and to the formatter
\* (the struct's Borsh deserialization checks no attestation).
KeyCandidates ==
    ValidKeys \cup ReheldKeys \cup TwoMemberAttestations \cup EmptyAttestations
        \cup MovedKeypoints

\* Message texts: "", "M", two lines, a blank line between two lines, a
\* trailing newline, the line """ alone, and the four infix lines.
TextMessages ==
    {<<>>, <<77>>, <<77, 10, 78>>, <<77, 10, 10, 78>>, <<77, 10>>, <<34, 34, 34>>,
     <<34, 34, 34, 10, 10>> \o SIGNED_MESSAGE_INFIX_THIRD_LINE \o <<10>>}

\* The signer of the formatted messages and the keys of the other members.
TextSigner ==
    PrivateKey_new(Unwrap(Identity_new(<<65, 32, 66>>, <<101>>)), ScalarOf(1),
                   <<ScalarOf(1)>>, ATTESTATION_SAMPLE)

TextOthers ==
    {PrivateKey_public(PrivateKey_new(Unwrap(Identity_new(<<66>>, <<60, 101, 62>>)),
                                      k, <<k>>, ATTESTATION_SAMPLE)) :
        k \in {ScalarOf(0), ScalarOf(2)}}

\* The SignedMessage values SignedMessage::sign returns for them.
TextSigned ==
    UNION {UNION {
        {SignedMessage_sign(m, TextSigner, others,
                            [i \in 1..(Len(others) + 1) |-> ScalarOf(i)],
                            ScalarOf(1), index) :
            index \in binary_search_by_key(
                          make_ring(RistrettoPoint_mul_base(TextSigner.key),
                                    [i \in DOMAIN others |-> others[i].keypoint], "point"),
                          RistrettoPoint_mul_base(TextSigner.key))} :
        others \in SeqsUpTo(TextOthers, MaxOthers)} : m \in TextMessages}

\* A SignedMessage value with RingCopies ring members, all the same.
RingCopies == 13

LongRing ==
    LET m == CHOOSE x \in TextSigned : x.message = <<77>> /\ Len(x.ring) = 1
    IN [m EXCEPT !.ring = [i \in 1..RingCopies |-> m.ring[1]]]

\* The SignedMessage values that are formatted.
TextValues == TextSigned \cup {LongRing}

\* ------------------------------------ ristretto.rs, lib.rs: Borsh encodings

\* A buffer or a text is a sequence of items.  The item <<n>> is the byte
\* or the character n.  The 32-byte array of a compressed point is one
\* item, <<compress(p)>>, and that of a scalar is two: the little-endian
\* bytes of the number when the scalar is a number, and else <<0, s>> and
\* <<1, s>>, the bytes of a scalar s that comes from a hash, which have no
\* value here.  <<k, s, d>> is a digit of such a byte <<k, s>> in hex (d = 0
\* and 1) and in Z85 (d = 2 and 3).

\* The items of a string of characters or of a sequence of bytes.
Str(s) == [i \in DOMAIN s |-> <<s[i]>>]

is_plain(item) == Len(item) = 1

all_plain(items) == \A i \in DOMAIN items : is_plain(items[i])

\* The characters of a text; a digit of a byte that has no value reads as
\* U+FFFD.
Unstr(items) == [i \in DOMAIN items |-> IF is_plain(items[i]) THEN items[i][1] ELSE 65533]

\* Scalar::as_bytes
Scalar_as_bytes(s) ==
    IF IsConst(s) THEN <<<<Coef(s, One)>>, <<0>>>>
    ELSE <<<<0, s>>, <<1, s>>>>

\* Scalar::from_canonical_bytes
Scalar_from_canonical_bytes(bytes) ==
    IF is_plain(bytes[1]) /\ is_plain(bytes[2])
    THEN (IF bytes[2][1] = 0 /\ bytes[1][1] < Q THEN Some(ScalarOf(bytes[1][1])) ELSE None)
    ELSE IF /\ Len(bytes[1]) = 2 /\ Len(bytes[2]) = 2
            /\ bytes[1][1] = 0 /\ bytes[2][1] = 1
            /\ bytes[1][2] = bytes[2][2]
            /\ ~IsConst(bytes[1][2])
         THEN Some(bytes[1][2])
    ELSE None

\* CompressedRistretto::decompress
decompress(b) ==
    IF \E p \in Points : compress(p) = b
    THEN Some(CHOOSE p \in Points : compress(p) = b)
    ELSE None

\* The element of a set of one element: Only({f(x) : x \in {e}}) is
\* LET x == e IN f(x), with e evaluated once.
Only(S) == CHOOSE r \in S : TRUE

\* What a deserializer returns on success: the value and the unread bytes.
Read(v, rest) == Some([value |-> v, rest |-> rest])

Drop(bytes, n) == SubSeq(bytes, n + 1, Len(bytes))

RECURSIVE Flatten(_)
Flatten(seqs) == IF seqs = <<>> THEN <<>> ELSE Head(seqs) \o Flatten(Tail(seqs))

\* A u32 length prefix, little-endian.  Lengths of 65536 and more are read
\* as 65536: more items than any buffer here holds.
u32_serialize(n) == Str(<<n % 256, (n \div 256) % 256, 0, 0>>)

u32_deserialize(bytes) ==
    IF Len(bytes) < 4 THEN None
    ELSE IF ~all_plain(SubSeq(bytes, 1, 4)) THEN None
    ELSE Read(IF bytes[3][1] = 0 /\ bytes[4][1] = 0 THEN bytes[1][1] + 256 * bytes[2][1]
              ELSE 65536,
              Drop(bytes, 4))

Scalar_serialize(s) == Scalar_as_bytes(s)

Scalar_deserialize(bytes) ==
    IF Len(bytes) < 2 THEN None
    ELSE Only({IF IsSome(s) THEN Read(Unwrap(s), Drop(bytes, 2)) ELSE None :
                    s \in {Scalar_from_canonical_bytes(bytes)}})

RistrettoPoint_serialize(p) == <<<<compress(p)>>>>

RistrettoPoint_deserialize(bytes) ==
    IF Len(bytes) < 1 THEN None
    ELSE IF ~is_plain(bytes[1]) THEN None
    ELSE Only({IF IsSome(p) THEN Read(Unwrap(p), Drop(bytes, 1)) ELSE None :
                    p \in {decompress(bytes[1][1])}})

\* Vec<u8>
Vec_u8_serialize(v) == u32_serialize(Len(v)) \o v

Vec_u8_deserialize(bytes) ==
    Only({IF ~IsSome(n) THEN None
          ELSE IF Len(Unwrap(n).rest) < Unwrap(n).value THEN None
          ELSE Read(SubSeq(Unwrap(n).rest, 1, Unwrap(n).value),
                    Drop(Unwrap(n).rest, Unwrap(n).value)) :
            n \in {u32_deserialize(bytes)}})

\* String::from_utf8, for characters of one and two bytes.
RECURSIVE from_utf8(_)
from_utf8(bytes) ==
    IF bytes = <<>> THEN Some(<<>>)
    ELSE IF bytes[1] < 128
         THEN Only({IF IsSome(r) THEN Some(<<bytes[1]>> \o Unwrap(r)) ELSE None :
                        r \in {from_utf8(Drop(bytes, 1))}})
    ELSE IF bytes[1] \in 194..223 /\ Len(bytes) >= 2 /\ bytes[2] \in 128..191
         THEN Only({IF IsSome(r)
                    THEN Some(<<(bytes[1] - 192) * 64 + (bytes[2] - 128)>> \o Unwrap(r))
                    ELSE None :
                        r \in {from_utf8(Drop(bytes, 2))}})
    ELSE None

String_serialize(str) == Vec_u8_serialize(Str(as_bytes(str)))

String_deserialize(bytes) ==
    Only({IF ~IsSome(v) THEN None
          ELSE IF ~all_plain(Unwrap(v).value) THEN None
          ELSE Only({IF ~IsSome(str) THEN None ELSE Read(Unwrap(str), Unwrap(v).rest) :
                        str \in {from_utf8(Unstr(Unwrap(v).value))}}) :
            v \in {Vec_u8_deserialize(bytes)}})

BoringAscii_serialize(self) == Vec_u8_serialize(Str(self))

BoringAscii_deserialize(bytes) ==
    Only({IF ~IsSome(v) THEN None
          ELSE IF ~all_plain(Unwrap(v).value) THEN None
          ELSE Only({IF ~IsSome(str) THEN None ELSE Read(Unwrap(str), Unwrap(v).rest) :
                        str \in {BoringAscii_from_bytes(Unstr(Unwrap(v).value))}}) :
            v \in {Vec_u8_deserialize(bytes)}})

Identity_serialize(self) == String_serialize(self.name) \o BoringAscii_serialize(self.email)

Identity_deserialize(bytes) ==
    Only({IF ~IsSome(name) THEN None
          ELSE Only({IF ~IsSome(email) THEN None
                     ELSE Only({IF IsSome(id) THEN Read(Unwrap(id), Unwrap(email).rest)
                                ELSE None :
                                    id \in {Identity_new(Unwrap(name).value,
                                                         Unwrap(email).value)}}) :
                        email \in {BoringAscii_deserialize(Unwrap(name).rest)}}) :
            name \in {String_deserialize(bytes)}})

ZebraVersion_serialize(self) == <<<<0>>>>

ZebraVersion_deserialize(bytes) ==
    IF Len(bytes) < 1 \/ bytes[1] # <<0>> THEN None
    ELSE Read("ZebraOneBeta", Drop(bytes, 1))

\* One element of a Vec: (RistrettoPoint, Scalar) in a Signature, and
\* (PublicKey, Scalar) in the signature block of a signed message.
Signature_serialize(self) ==
    Scalar_serialize(self.challenge)
        \o u32_serialize(Len(self.ring_responses))
        \o Flatten([i \in DOMAIN self.ring_responses |->
                        RistrettoPoint_serialize(self.ring_responses[i][1])
                            \o Scalar_serialize(self.ring_responses[i][2])])

point_scalar_deserialize(bytes) ==
    Only({IF ~IsSome(p) THEN None
          ELSE Only({IF ~IsSome(s) THEN None
                     ELSE Read(<<Unwrap(p).value, Unwrap(s).value>>, Unwrap(s).rest) :
                        s \in {Scalar_deserialize(Unwrap(p).rest)}}) :
            p \in {RistrettoPoint_deserialize(bytes)}})

RECURSIVE point_scalars_deserialize(_, _, _)
point_scalars_deserialize(n, bytes, acc) ==
    IF n = 0 THEN Read(acc, bytes)
    ELSE Only({IF ~IsSome(e) THEN None
               ELSE point_scalars_deserialize(n - 1, Unwrap(e).rest,
                                              Append(acc, Unwrap(e).value)) :
                    e \in {point_scalar_deserialize(bytes)}})

Signature_deserialize(bytes) ==
    Only({IF ~IsSome(c) THEN None
          ELSE Only({IF ~IsSome(n) THEN None
                     ELSE Only({IF ~IsSome(rr) THEN None
                                ELSE Read([challenge |-> Unwrap(c).value,
                                           ring_responses |-> Unwrap(rr).value],
                                          Unwrap(rr).rest) :
                                    rr \in {point_scalars_deserialize(Unwrap(n).value,
                                                                      Unwrap(n).rest, <<>>)}}) :
                        n \in {u32_deserialize(Unwrap(c).rest)}}) :
            c \in {Scalar_deserialize(bytes)}})

PublicKey_serialize(self) ==
    Identity_serialize(self.holder)
        \o ZebraVersion_serialize(self.version)
        \o RistrettoPoint_serialize(self.keypoint)
        \o Signature_serialize(self.holder_attestation)

PublicKey_deserialize(bytes) ==
    Only({IF ~IsSome(holder) THEN None
          ELSE Only({IF ~IsSome(version) THEN None
          ELSE Only({IF ~IsSome(keypoint) THEN None
          ELSE Only({IF ~IsSome(att) THEN None
                     ELSE Read([holder |-> Unwrap(holder).value,
                                version |-> Unwrap(version).value,
                                keypoint |-> Unwrap(keypoint).value,
                                holder_attestation |-> Unwrap(att).value],
                               Unwrap(att).rest) :
                att \in {Signature_deserialize(Unwrap(keypoint).rest)}}) :
                keypoint \in {RistrettoPoint_deserialize(Unwrap(version).rest)}}) :
                version \in {ZebraVersion_deserialize(Unwrap(holder).rest)}}) :
                holder \in {Identity_deserialize(bytes)}})

key_scalar_deserialize(bytes) ==
    Only({IF ~IsSome(k) THEN None
          ELSE Only({IF ~IsSome(s) THEN None
                     ELSE Read(<<Unwrap(k).value, Unwrap(s).value>>, Unwrap(s).rest) :
                        s \in {Scalar_deserialize(Unwrap(k).rest)}}) :
            k \in {PublicKey_deserialize(bytes)}})

RECURSIVE key_scalars_deserialize(_, _, _)
key_scalars_deserialize(n, bytes, acc) ==
    IF n = 0 THEN Read(acc, bytes)
    ELSE Only({IF ~IsSome(e) THEN None
               ELSE key_scalars_deserialize(n - 1, Unwrap(e).rest,
                                            Append(acc, Unwrap(e).value)) :
                    e \in {key_scalar_deserialize(bytes)}})

\* (m.challenge.clone(), m.ring.clone()).serialize(..)
challenge_ring_serialize(challenge, ring) ==
    Scalar_serialize(challenge)
        \o u32_serialize(Len(ring))
        \o Flatten([i \in DOMAIN ring |->
                        PublicKey_serialize(ring[i][1]) \o Scalar_serialize(ring[i][2])])

\* <(Scalar, Vec<(PublicKey, Scalar)>)>::deserialize(&mut slice): the bytes
\* left unread in the slice are not looked at.
challenge_ring_deserialize(bytes) ==
    Only({IF ~IsSome(c) THEN None
          ELSE Only({IF ~IsSome(n) THEN None
                     ELSE Only({IF ~IsSome(ring) THEN None
                                ELSE Read(<<Unwrap(c).value, Unwrap(ring).value>>,
                                          Unwrap(ring).rest) :
                                    ring \in {key_scalars_deserialize(Unwrap(n).value,
                                                                      Unwrap(n).rest, <<>>)}}) :
                        n \in {u32_deserialize(Unwrap(c).rest)}}) :
            c \in {Scalar_deserialize(bytes)}})

\* ------------------------------------------------- the hex and z85 crates

\* "0123456789ABCDEF"
HEX_CHARS_UPPER ==
    <<48, 49, 50, 51, 52, 53, 54, 55, 56, 57, 65, 66, 67, 68, 69, 70>>

\* The two digits of one byte.
hex_digits(byte) ==
    IF is_plain(byte)
    THEN <<<<HEX_CHARS_UPPER[(byte[1] \div 16) + 1]>>, <<HEX_CHARS_UPPER[(byte[1] % 16) + 1]>>>>
    ELSE <<<<byte[1], byte[2], 0>>, <<byte[1], byte[2], 1>>>>

hex_encode_upper(bytes) ==
    [i \in 1..(2 * Len(bytes)) |-> hex_digits(bytes[(i + 1) \div 2])[IF i % 2 = 1 THEN 1 ELSE 2]]

is_upper_hex(c) ==
    IF is_plain(c) THEN (48 <= c[1] /\ c[1] <= 57) \/ (65 <= c[1] /\ c[1] <= 70)
    ELSE Len(c) = 3 /\ c[3] \in {0, 1}

\* The value of a hex digit of either case, 16 for any other character.
hex_val(c) ==
    IF 48 <= c /\ c <= 57 THEN c - 48
    ELSE IF 65 <= c /\ c <= 70 THEN c - 55
    ELSE IF 97 <= c /\ c <= 102 THEN c - 87
    ELSE 16

\* The byte two digits stand for, if any.
hex_byte(x, y) ==
    IF is_plain(x) /\ is_plain(y)
    THEN (IF hex_val(x[1]) = 16 \/ hex_val(y[1]) = 16 THEN None
          ELSE Some(<<16 * hex_val(x[1]) + hex_val(y[1])>>))
    ELSE IF Len(x) = 3 /\ Len(y) = 3 /\ x[3] = 0 /\ y[3] = 1 /\ x[1] = y[1] /\ x[2] = y[2]
         THEN Some(<<x[1], x[2]>>)
    ELSE None

hex_decode(str) ==
    IF Len(str) % 2 # 0 THEN None
    ELSE IF \E i \in 1..(Len(str) \div 2) : ~IsSome(hex_byte(str[2 * i - 1], str[2 * i]))
         THEN None
    ELSE Some([i \in 1..(Len(str) \div 2) |-> Unwrap(hex_byte(str[2 * i - 1], str[2 * i]))])

\* Z85 writes a chunk of bytes as digits of base 85; a chunk is one byte and
\* two digits here (four bytes and five digits in the crate).
z85_digits(byte) ==
    IF is_plain(byte)
    THEN <<<<Z85_ALPHABET[(byte[1] \div 85) + 1]>>, <<Z85_ALPHABET[(byte[1] % 85) + 1]>>>>
    ELSE <<<<byte[1], byte[2], 2>>, <<byte[1], byte[2], 3>>>>

z85_encode(bytes) ==
    [i \in 1..(2 * Len(bytes)) |-> z85_digits(bytes[(i + 1) \div 2])[IF i % 2 = 1 THEN 1 ELSE 2]]

\* The digit a character stands for, 85 for a character not in the alphabet.
z85_val(c) ==
    IF \E d \in DOMAIN Z85_ALPHABET : Z85_ALPHABET[d] = c
    THEN (CHOOSE d \in DOMAIN Z85_ALPHABET : Z85_ALPHABET[d] = c) - 1
    ELSE 85

\* The byte two digits stand for, if any.
z85_byte(x, y) ==
    IF is_plain(x) /\ is_plain(y)
    THEN (IF z85_val(x[1]) = 85 \/ z85_val(y[1]) = 85 THEN None
          ELSE IF 85 * z85_val(x[1]) + z85_val(y[1]) > 255 THEN None
          ELSE Some(<<85 * z85_val(x[1]) + z85_val(y[1])>>))
    ELSE IF Len(x) = 3 /\ Len(y) = 3 /\ x[3] = 2 /\ y[3] = 3 /\ x[1] = y[1] /\ x[2] = y[2]
         THEN Some(<<x[1], x[2]>>)
    ELSE None

z85_decode(str) ==
    IF Len(str) % 2 # 0 THEN None
    ELSE IF \E i \in 1..(Len(str) \div 2) : ~IsSome(z85_byte(str[2 * i - 1], str[2 * i]))
         THEN None
    ELSE Some([i \in 1..(Len(str) \div 2) |-> Unwrap(z85_byte(str[2 * i - 1], str[2 * i]))])

\* Sha3_256::digest: four bytes of two running sums over the buffer, in
\* which the bytes of a scalar that comes from a hash count as 256 and 257.
RECURSIVE digest_sum(_, _, _, _)
digest_sum(buffer, i, factor, acc) ==
    IF i > Len(buffer) THEN acc
    ELSE digest_sum(buffer, i + 1, factor,
                    (acc * factor + 1
                        + (IF is_plain(buffer[i]) THEN buffer[i][1] ELSE 256 + buffer[i][1]))
                    % 65521)

Sha3_256_digest(buffer) ==
    Only({Str(<<x % 256, x \div 256, y % 256, y \div 256>>) :
            x \in {digest_sum(buffer, 1, 31, 7)}, y \in {digest_sum(buffer, 1, 37, 11)}})

\* ------------------------------------------------ lib.rs: the ASCII formats

\* char::is_whitespace, for the characters below U+0100.
is_whitespace(c) == is_plain(c) /\ c[1] \in {9, 10, 11, 12, 13, 32, 133, 160}

\* str::trim
trim(s) ==
    LET keep == {i \in DOMAIN s : ~is_whitespace(s[i])}
    IN IF keep = {} THEN <<>>
       ELSE SubSeq(s, CHOOSE i \in keep : \A j \in keep : i <= j,
                      CHOOSE i \in keep : \A j \in keep : j <= i)

\* str::split(sep), collected: the pieces between the separators.
split(s, sep) ==
    LET cuts == {i \in DOMAIN s : s[i] = sep}
        n == Cardinality(cuts)
        cut(k) == IF k = 0 THEN 0
                  ELSE IF k = n + 1 THEN Len(s) + 1
                  ELSE CHOOSE i \in cuts : Cardinality({j \in cuts : j < i}) = k - 1
    IN [k \in 1..(n + 1) |-> SubSeq(s, cut(k - 1) + 1, cut(k) - 1)]

\* [String]::join(sep)
RECURSIVE join(_, _)
join(parts, sep) ==
    IF parts = <<>> THEN <<>>
    ELSE IF Len(parts) = 1 THEN Head(parts)
    ELSE Head(parts) \o <<sep>> \o join(Tail(parts), sep)

\* Vec::insert(index, element)
insert(v, index, element) ==
    SubSeq(v, 1, index) \o <<element>> \o SubSeq(v, index + 1, Len(v))

\* PublicKey::fingerprint: the encoded digest (eight characters here, forty
\* in the code) in four groups separated by spaces.
fingerprint(self) ==
    Only({insert(insert(insert(res, 6, <<32>>), 4, <<32>>), 2, <<32>>) :
            res \in {z85_encode(Sha3_256_digest(PublicKey_serialize(self)))}})

ZebraVersion_to_string(self) == Str(ZEBRA_ONE_BETA)

\* impl From<PublicKey> for String: "[{} <{}> <{}> {} {}]"
PublicKey_to_string(k) ==
    Str(<<91>> \o k.holder.name \o <<32, 60>> \o k.holder.email \o <<62, 32, 60>>)
        \o ZebraVersion_to_string(k.version) \o Str(<<62, 32>>)
        \o hex_encode_upper(<<<<compress(k.keypoint)>>>>) \o Str(<<32>>)
        \o hex_encode_upper(Signature_serialize(k.holder_attestation)) \o Str(<<93>>)

\* The numbers of hex digits of a compressed point and of a Signature of
\* one ring member ({64} and {200} in the regex).
KEYPOINT_HEX_DIGITS == 2 * 1

ATTESTATION_HEX_DIGITS == 2 * (2 + 4 + 1 + 2)

\* Mutant of is_email_char: the class also holds the space.
is_email_char_or_space(c) == is_plain(c) /\ 32 <= c[1] /\ c[1] <= 126

\* The class [!-~] of the second group.
is_email_char(c) == is_plain(c) /\ 33 <= c[1] /\ c[1] <= 126

\* The matches of the whole string against
\* ^\[([^\n]*) <([!-~]*)> <ZebraSign 1.0 Beta> ([0-9A-F]{..}) ([0-9A-F]{..})\]$
\* with their four groups.  What follows the email has a fixed length, so
\* the email of every match ends at e.
regex_matches(s) ==
    LET n == Len(s)
        v == Len(ZEBRA_ONE_BETA)
        e == n - (3 + v + 2 + KEYPOINT_HEX_DIGITS + 1 + ATTESTATION_HEX_DIGITS + 1)
        k == e + 3 + v + 2
        a == k + KEYPOINT_HEX_DIGITS + 1
    IN IF e < 3 THEN {}
       ELSE IF \/ s[1] # <<91>>
               \/ SubSeq(s, e + 1, e + 3) # Str(<<62, 32, 60>>)
               \/ SubSeq(s, e + 4, e + 3 + v) # Str(ZEBRA_ONE_BETA)
               \/ SubSeq(s, e + 4 + v, k) # Str(<<62, 32>>)
               \/ \E i \in (k + 1)..(k + KEYPOINT_HEX_DIGITS) : ~is_upper_hex(s[i])
               \/ s[a] # <<32>>
               \/ \E i \in (a + 1)..(a + ATTESTATION_HEX_DIGITS) : ~is_upper_hex(s[i])
               \/ s[n] # <<93>>
            THEN {}
       ELSE {[name |-> SubSeq(s, 2, i - 1),
              email |-> SubSeq(s, i + 2, e),
              keypoint |-> SubSeq(s, k + 1, k + KEYPOINT_HEX_DIGITS),
              attestation |-> SubSeq(s, a + 1, a + ATTESTATION_HEX_DIGITS)] :
                i \in {j \in 2..(e - 1) :
                        /\ s[j] = <<32>> /\ s[j + 1] = <<60>>
                        /\ \A x \in 2..(j - 1) : s[x] # <<10>>
                        /\ \A x \in (j + 2)..e : is_email_char(s[x])}}

\* The match the regex reports: the first group is greedy.
regex_captures(s) ==
    CHOOSE c \in regex_matches(s) : \A d \in regex_matches(s) : Len(d.name) <= Len(c.name)

\* Mutant of check_attestation: the key is returned without the check.
check_attestation_skipped(res) == Some(res)

\* if !res.validate_attestation() { return Err(()); } Ok(res)
check_attestation(res) == IF ~validate_attestation(res) THEN None ELSE Some(res)

\* impl FromStr for PublicKey
PublicKey_from_str(s) ==
    IF regex_matches(s) = {} THEN None
    ELSE LET caps == regex_captures(s)
             id == Identity_new(Unstr(caps.name), Unstr(caps.email))
             keypoint == hex_decode(caps.keypoint)
             attestation == hex_decode(caps.attestation)
         IN IF ~IsSome(id) \/ ~IsSome(keypoint) \/ ~IsSome(attestation) THEN None
            ELSE IF Len(Unwrap(keypoint)) # 1 THEN None
            ELSE IF ~is_plain(Unwrap(keypoint)[1]) THEN None
            ELSE IF ~IsSome(decompress(Unwrap(keypoint)[1][1])) THEN None
            ELSE IF ~IsSome(Signature_deserialize(Unwrap(attestation))) THEN None
            ELSE LET res == [holder |-> Unwrap(id),
                             version |-> "ZebraOneBeta",
                             keypoint |-> Unwrap(decompress(Unwrap(keypoint)[1][1])),
                             holder_attestation |->
                                Unwrap(Signature_deserialize(Unwrap(attestation))).value]
                 IN check_attestation(res)

\* format!("{} <{}> {}", k.holder.name(), k.holder.email(), k.fingerprint())
identity_line(k) ==
    Str(k.holder.name \o <<32, 60>> \o k.holder.email \o <<62, 32>>) \o fingerprint(k)

\* impl From<&SignedMessage> for String
SignedMessage_to_string(m) ==
    join(<<Str(SIGNED_MESSAGE_FIRST_LINE),
           Str(SIGNED_MESSAGE_SECOND_LINE),
           Str(m.message),
           Str(SIGNED_MESSAGE_INFIX_FIRST_LINE),
           Str(SIGNED_MESSAGE_INFIX_SECOND_LINE),
           Str(SIGNED_MESSAGE_INFIX_THIRD_LINE),
           Str(SIGNED_MESSAGE_INFIX_FOURTH_LINE)>>
         \o [i \in DOMAIN m.ring |-> identity_line(m.ring[i][1])]
         \o <<<<>>,
              z85_encode(challenge_ring_serialize(m.challenge, m.ring)),
              Str(SIGNED_MESSAGE_SUFFIX_FIRST_LINE),
              Str(SIGNED_MESSAGE_SUFFIX_SECOND_LINE)>>,
         <<10>>)

\* The outcomes of SignedMessage::from_str: Ok(value), Err(ParseError()),
\* or a panic (an index or a subtraction out of range).
Ok(m) == [kind |-> "Ok", value |-> m]

Err == [kind |-> "Err", value |-> NoSignedMessage]

Panic == [kind |-> "Panic", value |-> NoSignedMessage]

\* for (i, (signer, _)) in ring.iter().rev().enumerate(): the first member,
\* from the last, whose line lines[lines.len() - 5 - i] differs, if any.
\* Indices count from 0 as in the code; lines[x] is lines[x + 1] here.
RECURSIVE identity_lines_loop(_, _, _)
identity_lines_loop(i, lines, ring) ==
    IF i = Len(ring) THEN "matched"
    ELSE IF Len(lines) - 5 - i < 0 THEN "panic"
    ELSE IF lines[Len(lines) - 5 - i + 1] # identity_line(ring[Len(ring) - i][1]) THEN "differs"
    ELSE identity_lines_loop(i + 1, lines, ring)

\* The four comparisons of the fixed lines between the message and the
\* ring, evaluated in order, each index computed before its comparison.
RECURSIVE infix_lines_check(_, _, _)
infix_lines_check(j, lines, n) ==
    LET expected == <<SIGNED_MESSAGE_INFIX_FOURTH_LINE, SIGNED_MESSAGE_INFIX_THIRD_LINE,
                      SIGNED_MESSAGE_INFIX_SECOND_LINE, SIGNED_MESSAGE_INFIX_FIRST_LINE>>
    IN IF j = 4 THEN "matched"
       ELSE IF Len(lines) - 5 - n - j < 0 THEN "panic"
       ELSE IF lines[Len(lines) - 5 - n - j + 1] # Str(expected[j + 1]) THEN "differs"
       ELSE infix_lines_check(j + 1, lines, n)

\* Mutant of message_lines: the slice ends one line early.
message_lines_short(lines, n) ==
    LET end == Len(lines) - 5 - n - 3
    IN IF end < 2 THEN None
       ELSE Some(Unstr(join(SubSeq(lines, 3, end - 1), <<10>>)))

\* lines[2..lines.len() - 5 - ring.len() - 3].join("\n")
message_lines(lines, n) ==
    LET end == Len(lines) - 5 - n - 3
    IN IF end < 2 THEN None
       ELSE Some(Unstr(join(SubSeq(lines, 3, end), <<10>>)))

\* impl FromStr for SignedMessage, from the decoded signature block on.
from_str_ring(lines, pair) ==
    Only({IF signers = "panic" THEN Panic
          ELSE IF signers = "differs" THEN Err
          ELSE Only({IF infix = "panic" THEN Panic
                     ELSE IF infix = "differs" THEN Err
                     ELSE Only({IF ~IsSome(message) THEN Panic
                                ELSE Ok([message |-> Unwrap(message),
                                         challenge |-> pair[1],
                                         ring |-> pair[2]]) :
                                    message \in {message_lines(lines, Len(pair[2]))}}) :
                        infix \in {infix_lines_check(0, lines, Len(pair[2]))}}) :
            signers \in {identity_lines_loop(0, lines, pair[2])}})

\* impl FromStr for SignedMessage, from the split lines on.
from_str_lines(lines) ==
    IF Len(lines) < 12 THEN Err
    ELSE IF \/ lines[1] # Str(SIGNED_MESSAGE_FIRST_LINE)
            \/ lines[2] # Str(SIGNED_MESSAGE_SECOND_LINE)
         THEN Err
    ELSE IF \/ lines[Len(lines)] # Str(SIGNED_MESSAGE_SUFFIX_SECOND_LINE)
            \/ lines[Len(lines) - 1] # Str(SIGNED_MESSAGE_SUFFIX_FIRST_LINE)
            \/ lines[Len(lines) - 3] # <<>>
         THEN Err
    ELSE Only({IF ~IsSome(signature_bytes) THEN Err
               ELSE Only({IF ~IsSome(pair) THEN Err
                          ELSE from_str_ring(lines, Unwrap(pair).value) :
                            pair \in {challenge_ring_deserialize(Unwrap(signature_bytes))}}) :
                    signature_bytes \in {z85_decode(lines[Len(lines) - 2])}})

\* impl FromStr for SignedMessage
SignedMessage_from_str(s) ==
    Only({from_str_lines(lines) : lines \in {split(trim(s), <<10>>)}})

\* zebra_wasm: verify_signature.  A panic of from_str is a panic of the call.
verify_signature(message) ==
    Only({IF parsed.kind = "Panic" THEN "panic"
          ELSE IF parsed.kind = "Ok"
               THEN (IF SignedMessage_verify(parsed.value) THEN "true" ELSE "false")
          ELSE "false" :
            parsed \in {SignedMessage_from_str(message)}})

\* ------------------------------------------- zebra_storage: the keychain

\* dbfile_utils.rs: the service the passphrase is stored under.
SERVICE_NAME == "ZebraSign"

\* The names whoami::username() returns: a blank one and a plain one.
OsUsernames == {"", "ben"}

get_username(whoami_username) ==
    IF whoami_username = "" THEN "zebra_user" ELSE whoami_username

\* The entries of the credential store the program addresses.
KeychainEntries == {<<SERVICE_NAME, get_username(u)>> : u \in OsUsernames}

\* keyring_utils.rs: the length of a sampled passphrase.
PASSPHRASE_LEN == 32

is_alphanumeric(c) ==
    (48 <= c /\ c <= 57) \/ (65 <= c /\ c <= 90) \/ (97 <= c /\ c <= 122)

\* What Alphanumeric.sample_string(&mut OsRng, 32) can return, two samples.
Passphrases == {[i \in 1..PASSPHRASE_LEN |-> c] : c \in {57, 122}}

\* The one the store machine's sampler returns.
StorePassphrases == {[i \in 1..PASSPHRASE_LEN |-> 57]}

\* The Result of get_or_create_db_key, and the value before any call.
NoKeyCall == [status |-> "none", pw |-> <<>>]
KeyOk(pw) == [status |-> "ok", pw |-> pw]
KeyErr == [status |-> "err", pw |-> <<>>]

\* ------------------------------------------ spartacus_storage: lib.rs

\* A path is a file stem and an extension; with_extension replaces the
\* extension.
lockfile_path(p) == [p EXCEPT !.ext = "lock"]

DbPaths == {[stem |-> "zebra_db", ext |-> "age"],
            [stem |-> "zebra_db", ext |-> "bak"],
            [stem |-> "other_db", ext |-> "age"]}

default_db_path == [stem |-> "zebra_db", ext |-> "age"]

LockFiles == {lockfile_path(p) : p \in DbPaths}

VerificationInfo_now(now) == [verified_date |-> Some(now)]
VerificationInfo_unverified == [verified_date |-> None]

\* A BTreeMap is the function from its keys to their values.
BTreeMap_new == <<>>

BTreeMap_insert(m, k, v) ==
    [x \in (DOMAIN m) \cup {k} |-> IF x = k THEN v ELSE m[x]]

BTreeMap_remove(m, k) == [x \in (DOMAIN m) \ {k} |-> m[x]]

DatabaseContentsV0_default ==
    [private_keys |-> BTreeMap_new, public_keys |-> BTreeMap_new]

\* Mutant of get_visible: the user's own public keys are left out.
get_visible_theirs_only(self) ==
    [my_public_keys |-> {}, their_public_keys |-> self.public_keys]

get_visible(self) ==
    [my_public_keys |-> DOMAIN self.private_keys,
     their_public_keys |-> self.public_keys]

\* The derived orders: sequences of characters compare lexicographically,
\* an Identity by name and then email, a PublicKey by holder, version,
\* keypoint (its compressed bytes) and then attestation.
seq_lt(a, b) ==
    \E i \in 1..(Len(a) + 1) :
        /\ i <= Len(b)
        /\ \A j \in 1..(i - 1) : a[j] = b[j]
        /\ (i = Len(a) + 1 \/ a[i] < b[i])

Identity_lt(a, b) ==
    seq_lt(a.name, b.name) \/ (a.name = b.name /\ seq_lt(a.email, b.email))

\* Mutant of PublicKey_lt: the keypoint is compared before the holder.
PublicKey_lt_keypoint_first(a, b) ==
    \/ compress(a.keypoint) < compress(b.keypoint)
    \/ compress(a.keypoint) = compress(b.keypoint) /\ Identity_lt(a.holder, b.holder)

\* No two keys of the pools differ in the attestation alone, so the order
\* of attestations is never consulted.
PublicKey_lt(a, b) ==
    \/ Identity_lt(a.holder, b.holder)
    \/ a.holder = b.holder /\ compress(a.keypoint) < compress(b.keypoint)

\* Borsh writes a BTreeMap as its entries in ascending order of the keys,
\* and reads one back only from entries in strictly ascending order.
BTreeMap_serialize(m) ==
    [r \in 1..Cardinality(DOMAIN m) |->
        Only({<<k, m[k]>> : k \in {x \in DOMAIN m :
                Cardinality({y \in DOMAIN m : PublicKey_lt(y, x)}) = r - 1}})]

BTreeMap_deserialize(entries) ==
    IF \E i \in 1..(Len(entries) - 1) : ~PublicKey_lt(entries[i][1], entries[i + 1][1])
    THEN None
    ELSE Some([k \in {entries[i][1] : i \in DOMAIN entries} |->
                  Only({entries[i][2] : i \in {j \in DOMAIN entries : entries[j][1] = k}})])

\* SpartacusDatabaseContents::V0(db): the discriminant and the two maps.
SpartacusDatabaseContents_serialize(db) ==
    <<0, BTreeMap_serialize(db.private_keys), BTreeMap_serialize(db.public_keys)>>

SpartacusDatabaseContents_deserialize(buffer) ==
    IF Len(buffer) # 3 \/ buffer[1] # 0 THEN None
    ELSE Only({IF IsSome(priv) /\ IsSome(pub)
               THEN Some([private_keys |-> Unwrap(priv), public_keys |-> Unwrap(pub)])
               ELSE None :
                 priv \in {BTreeMap_deserialize(buffer[2])},
                 pub \in {BTreeMap_deserialize(buffer[3])}})

\* The contents of a file: nothing, an age file encrypted to a passphrase,
\* or the leading part of one.
EmptyFile == [kind |-> "empty", pw |-> <<>>, plain |-> <<>>]
PartialFile == [kind |-> "partial", pw |-> <<>>, plain |-> <<>>]
age_encrypt(pw, buffer) == [kind |-> "age", pw |-> pw, plain |-> buffer]

\* age::Decryptor with a passphrase: the plaintext of a complete file that
\* was encrypted to the same passphrase.
age_decrypt(file, pw) ==
    IF file.kind = "age" /\ file.pw = pw THEN Some(file.plain) ELSE None

\* Mutant of read_contents: every file is taken for an empty one.
read_contents_as_empty(file, pw) == Some(DatabaseContentsV0_default)

\* The part of get_contents after the passphrase is known (154-189), on
\* the bytes of the database file.
read_contents(file, pw) ==
    IF file.kind = "empty" THEN Some(DatabaseContentsV0_default)
    ELSE Only({IF ~IsSome(bytes) THEN None
               ELSE SpartacusDatabaseContents_deserialize(Unwrap(bytes)) :
                 bytes \in {age_decrypt(file, pw)}})

\* What of a file's data has reached stable storage, and what a crash
\* leaves of the file then.
Extents == <<"none", "partial", "full">>

surviving(file, flushed) ==
    IF flushed = "full" \/ file.kind = "empty" THEN file
    ELSE IF flushed = "partial" THEN PartialFile
    ELSE EmptyFile

\* A path on disk: the file reads see, how much of it is on stable
\* storage, whether the directory entry naming it is, and the file the
\* stable directory entry names if it is not.
NewPath == [file |-> EmptyFile, flushed |-> "full", linked |-> TRUE, old |-> EmptyFile]

durable(entry) ==
    IF entry.linked THEN surviving(entry.file, entry.flushed) ELSE entry.old

\* The change each mutation makes to the contents it has read (the line
\* between get_contents and write_contents).
set_verified(contents, public_key, now) ==
    [contents EXCEPT !.public_keys =
        BTreeMap_insert(@, public_key, VerificationInfo_now(now))]

set_unverified(contents, public_key) ==
    [contents EXCEPT !.public_keys =
        BTreeMap_insert(@, public_key, VerificationInfo_unverified)]

\* Mutant of add_public_keys: a key that is stored keeps its verification
\* info.
add_public_keys_keeping(contents, public_keys) ==
    [contents EXCEPT !.public_keys =
        [x \in (DOMAIN @) \cup {public_keys[i] : i \in DOMAIN public_keys} |->
            IF x \in DOMAIN @ THEN @[x] ELSE VerificationInfo_unverified]]

add_public_keys(contents, public_keys) ==
    [contents EXCEPT !.public_keys =
        [x \in (DOMAIN @) \cup {public_keys[i] : i \in DOMAIN public_keys} |->
            IF \E i \in DOMAIN public_keys : public_keys[i] = x
            THEN VerificationInfo_unverified ELSE @[x]]]

delete_public_key(contents, key) ==
    [contents EXCEPT !.public_keys = BTreeMap_remove(@, key)]

\* Mutant of import_private_key: the entry is keyed by the public key with
\* another holder name.
import_private_key_renamed(contents, key) ==
    [contents EXCEPT !.private_keys =
        BTreeMap_insert(@, [PrivateKey_public(key) EXCEPT !.holder.name = <<66>>], key)]

import_private_key(contents, key) ==
    [contents EXCEPT !.private_keys = BTreeMap_insert(@, PrivateKey_public(key), key)]

delete_private_key(contents, public_key) ==
    [contents EXCEPT !.private_keys = BTreeMap_remove(@, public_key)]

Mutations == {"set_verified", "set_unverified", "add_public_keys", "delete_public_key",
              "new_private_key", "import_private_key", "delete_private_key"}

apply_mutation(contents, op, arg) ==
    CASE op = "set_verified" -> set_verified(contents, arg.key, arg.now)
      [] op = "set_unverified" -> set_unverified(contents, arg.key)
      [] op = "add_public_keys" -> add_public_keys(contents, arg.keys)
      [] op = "delete_public_key" -> delete_public_key(contents, arg.key)
      [] op = "new_private_key" -> import_private_key(contents, arg.key)
      [] op = "import_private_key" -> import_private_key(contents, arg.key)
      [] op = "delete_private_key" -> delete_private_key(contents, arg.key)

\* The samples and arguments the store machine draws.
DbProcs == {1, 2}
StoreProc == CHOOSE p \in DbProcs : TRUE
Times == {1, 2}
DbScalars == {ScalarOf(1), ScalarOf(2)}
DbNames == {<<65>>, <<10>>}
DbEmail == <<101>>
DbPrivateKeys ==
    {PrivateKey_new(Unwrap(Identity_new(<<65>>, DbEmail)), k, <<k>>, ATTESTATION_SAMPLE) :
        k \in DbScalars}
DbImportedKeys ==
    {PrivateKey_new(Unwrap(Identity_new(<<65>>, DbEmail)), ScalarOf(1), <<ScalarOf(1)>>,
                    ATTESTATION_SAMPLE)}
DbTheirKeys ==
    {PrivateKey_public(PrivateKey_new(Unwrap(Identity_new(<<66>>, DbEmail)), ScalarOf(2),
                                      <<ScalarOf(2)>>, ATTESTATION_SAMPLE))}
DbMyKeys == {PrivateKey_public(k) : k \in DbPrivateKeys}

\* ------------------------------------------------------- the state

VARIABLES
    sag_pc,      \* "init", "signed" or "verified"
    sag_in,      \* the arguments and samples of the last Signature::sign
    sag_sig,     \* the Signature it returned
    sag_checked, \* the Signature and message last handed to Signature::verify
    sag_result   \* what Signature::verify returned

sagVars == <<sag_pc, sag_in, sag_sig, sag_checked, sag_result>>

VARIABLES
    sm_pc,       \* "init", "signed" or "verified"
    sm_in,       \* the arguments and samples of the last SignedMessage::sign
    sm_signed,   \* the SignedMessage it returned
    sm_checked,  \* the SignedMessage last handed to SignedMessage::verify
    sm_result    \* what SignedMessage::verify returned

smVars == <<sm_pc, sm_in, sm_signed, sm_checked, sm_result>>

VARIABLES
    key_pc,      \* "init", "validated", "formatted" or "parsed"
    key_cand,    \* the PublicKey that is validated and formatted
    key_valid,   \* what validate_attestation returned for it
    key_text,    \* its text
    key_parsed,  \* what PublicKey::from_str returned for the text
    key_private  \* the PrivateKey that PrivateKey::new returned

keyVars == <<key_pc, key_cand, key_valid, key_text, key_parsed, key_private>>

VARIABLES
    tx_pc,       \* "init", "formatted", "edited", "parsed" or "verified"
    tx_value,    \* the SignedMessage that was formatted
    tx_text,     \* the text handed to the parser
    tx_parsed,   \* what SignedMessage::from_str returned for it
    tx_verdict   \* what verify_signature returned for it

txVars == <<tx_pc, tx_value, tx_text, tx_parsed, tx_verdict>>

VARIABLES
    kc_entries,  \* the credential store: for each entry, None or its passphrase
    db_locks,    \* for each lock file, the process whose open file holds the lock (0: none)
    db_fs,       \* for each database path, the file and what of it is on stable storage
    db_pc,       \* for each process, where it is in Database::new or in a call on its handle
    db_handle,   \* its Database: path, OS user and visible_contents
    db_call,     \* the call it is in, with what the call has read and built
    db_key,      \* what its last get_or_create_db_key returned
    db_result,   \* what its last call returned
    db_closed,   \* the view of the handle dropped last, if its last mutation succeeded
    db_faults    \* how many I/O operations have failed so far

VARIABLES
    fs_tmp    \* "same" or "other": whether std::env::temp_dir() is on the
              \* filesystem that holds the database directory

fsVars == <<fs_tmp>>

VARIABLES
    id_pc,    \* "init", or the constructor that ran last
    id_in,    \* what it was given
    id_out    \* what it returned: None for None or an error

idVars == <<id_pc, id_in, id_out>>

dbVars_but_pc == <<kc_entries, db_locks, db_fs, db_handle, db_call, db_key, db_result,
                   db_closed, db_faults>>

dbVars == <<kc_entries, db_locks, db_fs, db_pc, db_handle, db_call, db_key, db_result,
            db_closed, db_faults>>

vars == <<sagVars, smVars, keyVars, txVars, dbVars, idVars, fsVars>>

NoSagInput == [message |-> <<>>, key |-> Scalar_ZERO, others |-> <<>>,
               responses |-> <<>>, a |-> Scalar_ZERO, index |-> 0]

SagIdle ==
    /\ sag_pc = "init"
    /\ sag_in = NoSagInput
    /\ sag_sig = NoSignature
    /\ sag_checked = [sig |-> NoSignature, message |-> <<>>]
    /\ sag_result = FALSE

NoPrivateKey == [holder |-> [name |-> <<>>, email |-> <<>>], key |-> Scalar_ZERO,
                 holder_attestation |-> NoSignature]

NoSmInput == [message |-> <<>>, my_key |-> NoPrivateKey, other_keys |-> <<>>,
              responses |-> <<>>, a |-> Scalar_ZERO, index |-> 0]

SmIdle ==
    /\ sm_pc = "init"
    /\ sm_in = NoSmInput
    /\ sm_signed = NoSignedMessage
    /\ sm_checked = NoSignedMessage
    /\ sm_result = FALSE

NoPublicKey == [holder |-> [name |-> <<>>, email |-> <<>>], version |-> "ZebraOneBeta",
                keypoint |-> Scalar_ZERO, holder_attestation |-> NoSignature]

KeyIdle ==
    /\ key_pc = "init"
    /\ key_cand = NoPublicKey
    /\ key_valid = FALSE
    /\ key_text = <<>>
    /\ key_parsed = None
    /\ key_private = NoPrivateKey

TxIdle ==
    /\ tx_pc = "init"
    /\ tx_value = NoSignedMessage
    /\ tx_text = <<>>
    /\ tx_parsed = Err
    /\ tx_verdict = "false"

\* Nothing has been signed, verified, formatted or parsed yet.
NoView == get_visible(DatabaseContentsV0_default)

NoHandle == [path |-> default_db_path, user |-> "", visible |-> NoView, clean |-> TRUE]

NoCall == [op |-> "none", arg |-> <<>>, pre_file |-> EmptyFile, pre_view |-> NoView,
           pw |-> <<>>, contents |-> DatabaseContentsV0_default,
           tmp |-> EmptyFile, tmp_flushed |-> "none", tmp_dir |-> "none"]

NoResult == [op |-> "none", status |-> "none", value |-> None]

DbStart ==
    /\ kc_entries = [e \in KeychainEntries |-> None]
    /\ db_locks = [l \in LockFiles |-> 0]
    /\ db_fs = [p \in DbPaths |-> NewPath]
    /\ db_pc = [p \in DbProcs |-> "none"]
    /\ db_handle = [p \in DbProcs |-> NoHandle]
    /\ db_call = [p \in DbProcs |-> NoCall]
    /\ db_key = [p \in DbProcs |-> NoKeyCall]
    /\ db_result = [p \in DbProcs |-> NoResult]
    /\ db_closed = None

DbIdle == DbStart /\ db_faults = 0

NoIdInput == [bytes |-> <<>>, str |-> <<>>, name |-> <<>>, email |-> <<>>, rest |-> <<>>]

IdIdle ==
    /\ id_pc = "init"
    /\ id_in = NoIdInput
    /\ id_out = None

TmpMounts == {"same", "other"}

Init == SagIdle /\ SmIdle /\ KeyIdle /\ TxIdle /\ DbIdle /\ IdIdle /\ fs_tmp = "same"

\* The store on a machine of either layout.
InitStore ==
    SagIdle /\ SmIdle /\ KeyIdle /\ TxIdle /\ DbIdle /\ IdIdle /\ fs_tmp \in TmpMounts

\* Signature::sign(message, my_private_value, other_public_keypoints)
SagSign ==
    /\ sag_pc = "init"
    /\ \E message \in Msgs, key \in RandomScalars, a \in RandomScalars,
          others \in SeqsUpTo(Points, MaxOthers) :
         \E responses \in ResponseSamples(Len(others) + 1) :
           \E index \in binary_search_by_key(
                            make_ring(RistrettoPoint_mul_base(key), others, "point"),
                            RistrettoPoint_mul_base(key)) :
             /\ sag_in' = [message |-> message, key |-> key, others |-> others,
                           responses |-> responses, a |-> a, index |-> index]
             /\ sag_sig' = Signature_sign(message, key, others, responses, a, index)
    /\ sag_pc' = "signed"
    /\ UNCHANGED <<sag_checked, sag_result, smVars, keyVars, txVars, dbVars, idVars, fsVars>>

\* The signatures a caller can build from the signed one by replacing one
\* field (as the tests do with struct literals): the challenge, by a sampled
\* scalar or by the challenge of another signature (of the other message, or
\* made with another sample a), or one response scalar.
ReplacedChallenge(sig) ==
    {[sig EXCEPT !.challenge = c] :
        c \in (RandomScalars \cup
               {Signature_sign(m, sag_in.key, sag_in.others, sag_in.responses,
                               sag_in.a, sag_in.index).challenge : m \in Msgs}
               \cup
               {Signature_sign(sag_in.message, sag_in.key, sag_in.others,
                               sag_in.responses, x, sag_in.index).challenge :
                    x \in RandomScalars}) \ {sig.challenge}}

ReplacedResponse(sig) ==
    UNION {{[sig EXCEPT !.ring_responses[i][2] = r] :
                r \in RandomScalars \ {sig.ring_responses[i][2]}} :
           i \in DOMAIN sig.ring_responses}

EmptyRing(sig) ==
    {[challenge |-> c, ring_responses |-> <<>>] : c \in {Scalar_ZERO, sig.challenge}}

\* What is handed to Signature::verify: the signed signature with any
\* message, a signature with one field replaced with the signed message, a
\* signature without ring members with any message.
SagChecks ==
    {[sig |-> sag_sig, message |-> m] : m \in Msgs}
    \cup {[sig |-> sig, message |-> sag_in.message] :
            sig \in ReplacedChallenge(sag_sig) \cup ReplacedResponse(sag_sig)}
    \cup {[sig |-> sig, message |-> m] : sig \in EmptyRing(sag_sig), m \in Msgs}

\* self.verify(message) on the signed signature or on one built from it.
SagVerify ==
    /\ sag_pc = "signed"
    /\ \E check \in SagChecks :
         /\ sag_checked' = check
         /\ sag_result' = Signature_verify(check.sig, check.message)
    /\ sag_pc' = "verified"
    /\ UNCHANGED <<sag_in, sag_sig, smVars, keyVars, txVars, dbVars, idVars, fsVars>>

NextSag == SagSign \/ SagVerify

SpecSag == Init /\ [][NextSag]_vars

\* ---------------------------------------- the signed-message state machine

SmSign ==
    /\ sm_pc = "init"
    /\ \E message \in Msgs, my_key \in PrivateKeys,
          other_keys \in SeqsUpTo(PublicKeys, MaxOthers) :
         LET others == filter_my_key(other_keys, PrivateKey_public(my_key))
             points == [i \in DOMAIN others |-> others[i].keypoint]
         IN \E samples \in SignSamples(Len(others) + 1) :
              \E index \in binary_search_by_key(
                              make_ring(RistrettoPoint_mul_base(my_key.key), points, "point"),
                              RistrettoPoint_mul_base(my_key.key)) :
                /\ sm_in' = [message |-> message, my_key |-> my_key,
                             other_keys |-> other_keys, responses |-> samples.responses,
                             a |-> samples.a, index |-> index]
                /\ sm_signed' = SignedMessage_sign(message, my_key, other_keys,
                                                   samples.responses, samples.a, index)
    /\ sm_pc' = "signed"
    /\ UNCHANGED <<sm_checked, sm_result, sagVars, keyVars, txVars, dbVars, idVars, fsVars>>

\* The signed messages a caller can build from the signed one by replacing
\* one field: the message, or the name or email of one ring member.
ReplacedMessage(m) == {[m EXCEPT !.message = x] : x \in Msgs \ {m.message}}

ReplacedName(m) ==
    UNION {{[m EXCEPT !.ring[i][1].holder.name = n] :
                n \in Names \ {m.ring[i][1].holder.name}} : i \in DOMAIN m.ring}

ReplacedEmail(m) ==
    UNION {{[m EXCEPT !.ring[i][1].holder.email = e] :
                e \in Emails \ {m.ring[i][1].holder.email}} : i \in DOMAIN m.ring}

\* The signed message with every ring member removed.
EmptiedRing(m) == {[m EXCEPT !.ring = <<>>]}

SmVerify ==
    /\ sm_pc = "signed"
    /\ \E m \in {sm_signed} \cup ReplacedMessage(sm_signed)
                \cup ReplacedName(sm_signed) \cup ReplacedEmail(sm_signed)
                \cup EmptiedRing(sm_signed) :
         /\ sm_checked' = m
         /\ sm_result' = SignedMessage_verify(m)
    /\ sm_pc' = "verified"
    /\ UNCHANGED <<sm_in, sm_signed, sagVars, keyVars, txVars, dbVars, idVars, fsVars>>

NextSigned == SmSign \/ SmVerify

SpecSigned == Init /\ [][NextSigned]_vars

\* ----------------------------------------------- the BoringAscii machine

\* The bytes handed to the constructors: 0x00, 0x1F, 0x20, 0x21, "A", 0x7E,
\* 0x7F, 0x80, 0xFF and the bytes 0xC3 0xA9 and 0xCB 0x90 of the two-byte
\* characters U+00E9 and U+02D0.
BaByteValues == {0, 31, 32, 33, 65, 126, 127, 128, 255}

MaxAscii == 2

BaBytes == SeqsUpTo(BaByteValues, MaxAscii) \cup {<<195, 169>>, <<203, 144>>, <<65, 203, 144>>}

\* The characters of the strings handed to from_str and try_from.
BaChars == {0, 31, 32, 33, 65, 126, 127, 128, 233, 720}

BaStrs == SeqsUpTo(BaChars, MaxAscii)

\* BoringAscii::from_bytes(bytes)
BaFromBytes ==
    /\ \E b \in BaBytes :
         /\ id_in' = [NoIdInput EXCEPT !.bytes = b]
         /\ id_out' = BoringAscii_from_bytes(b)
    /\ id_pc' = "from_bytes"
    /\ UNCHANGED <<sagVars, smVars, keyVars, txVars, dbVars, fsVars>>

\* BoringAscii::from_str(s)
BaFromStr ==
    /\ \E s \in BaStrs :
         /\ id_in' = [NoIdInput EXCEPT !.str = s]
         /\ id_out' = BoringAscii_from_str(s)
    /\ id_pc' = "from_str"
    /\ UNCHANGED <<sagVars, smVars, keyVars, txVars, dbVars, fsVars>>

\* BoringAscii::try_from(s)
BaTryFrom ==
    /\ \E s \in BaStrs :
         /\ id_in' = [NoIdInput EXCEPT !.str = s]
         /\ id_out' = BoringAscii_try_from(s)
    /\ id_pc' = "try_from"
    /\ UNCHANGED <<sagVars, smVars, keyVars, txVars, dbVars, fsVars>>

\* BoringAscii::deserialize_reader on the Borsh encoding of a byte vector,
\* followed by the bytes of whatever comes next in the buffer.
BaDeserialize ==
    /\ \E b \in BaBytes, rest \in {<<>>, Str(<<65>>)} :
         /\ id_in' = [NoIdInput EXCEPT !.bytes = b, !.rest = rest]
         /\ id_out' = Only({IF IsSome(r) THEN Some(Unwrap(r).value) ELSE None :
                              r \in {BoringAscii_deserialize(Vec_u8_serialize(Str(b)) \o rest)}})
    /\ id_pc' = "deserialize"
    /\ UNCHANGED <<sagVars, smVars, keyVars, txVars, dbVars, fsVars>>

NextAscii == BaFromBytes \/ BaFromStr \/ BaTryFrom \/ BaDeserialize

SpecAscii == Init /\ [][NextAscii]_vars

\* -------------------------------------------------- the Identity machine

\* Names: "A", "", "A ", U+00E9, and names with U+0000, a tab, a newline,
\* U+007F and the two-byte control character U+0085.
IdNames == {<<65>>, <<>>, <<65, 32>>, <<233>>, <<0>>, <<65, 9>>, <<65, 10>>, <<127>>, <<133>>}

\* Emails: "e", "", "!", "~", and emails with a space, a tab, U+007F and
\* U+02D0.
IdEmails == {<<101>>, <<>>, <<33>>, <<126>>, <<32>>, <<101, 32>>, <<9>>, <<127>>, <<101, 720>>}

\* The bytes of an email in a buffer: those of IdEmails, and 0xFF.
IdEmailBytes == {as_bytes(e) : e \in IdEmails} \cup {<<255>>}

\* Identity::new(name, email)
IdNew ==
    /\ \E name \in IdNames, email \in IdEmails :
         /\ id_in' = [NoIdInput EXCEPT !.name = name, !.email = email]
         /\ id_out' = Identity_new(name, email)
    /\ id_pc' = "new"
    /\ UNCHANGED <<sagVars, smVars, keyVars, txVars, dbVars, fsVars>>

\* Identity::deserialize_reader on a buffer that holds a string and a byte
\* vector, whoever wrote them.
IdDeserialize ==
    /\ \E name \in IdNames, bytes \in IdEmailBytes :
         /\ id_in' = [NoIdInput EXCEPT !.name = name, !.bytes = bytes]
         /\ id_out' = Only({IF IsSome(r) THEN Some(Unwrap(r).value) ELSE None :
                              r \in {Identity_deserialize(String_serialize(name)
                                         \o Vec_u8_serialize(Str(bytes)))}})
    /\ id_pc' = "id_deserialize"
    /\ UNCHANGED <<sagVars, smVars, keyVars, txVars, dbVars, fsVars>>

\* PublicKey::from_str on the text of a key whose name and email are any
\* characters and whose attestation is made for that name and email; the
\* holder of the parsed key is kept.
IdParse ==
    /\ \E name \in IdNames, email \in IdEmails :
         /\ id_in' = [NoIdInput EXCEPT !.name = name, !.email = email]
         /\ id_out' = Only({IF IsSome(k) THEN Some(Unwrap(k).holder) ELSE None :
                k \in {PublicKey_from_str(PublicKey_to_string(PrivateKey_public(
                         PrivateKey_new([name |-> name, email |-> email], ScalarOf(1),
                                        <<ScalarOf(1)>>, ATTESTATION_SAMPLE))))}})
    /\ id_pc' = "parse"
    /\ UNCHANGED <<sagVars, smVars, keyVars, txVars, dbVars, fsVars>>

NextIdentity == IdNew \/ IdDeserialize \/ IdParse

SpecIdentity == Init /\ [][NextIdentity]_vars

\* ------------------------------------------------ the public-key machine

\* PublicKey::validate_attestation on a candidate key.
KeyValidate ==
    /\ key_pc = "init"
    /\ \E k \in KeyCandidates :
         /\ key_cand' = k
         /\ key_valid' = validate_attestation(k)
    /\ key_pc' = "validated"
    /\ UNCHANGED <<key_text, key_parsed, key_private, sagVars, smVars, txVars, dbVars, idVars, fsVars>>

\* String::from(key)
KeyFormat ==
    /\ key_pc = "validated"
    /\ key_text' = PublicKey_to_string(key_cand)
    /\ key_pc' = "formatted"
    /\ UNCHANGED <<key_cand, key_valid, key_parsed, key_private, sagVars, smVars, txVars, dbVars, idVars, fsVars>>

\* PublicKey::from_str(text)
KeyParse ==
    /\ key_pc = "formatted"
    /\ key_parsed' = PublicKey_from_str(key_text)
    /\ key_pc' = "parsed"
    /\ UNCHANGED <<key_cand, key_valid, key_text, key_private, sagVars, smVars, txVars, dbVars, idVars, fsVars>>

NextKey == KeyValidate \/ KeyFormat \/ KeyParse

SpecKey == Init /\ [][NextKey]_vars

\* PrivateKey::new(holder): key is the sample of Scalar::random(), s the
\* samples of the Signature::sign call that makes the attestation.
KeyNew ==
    /\ key_pc = "init"
    /\ \E h \in KeyHolders, key \in RandomScalars, s \in SignSamples(1) :
         key_private' = PrivateKey_new(h, key, s.responses, s.a)
    /\ key_pc' = "made"
    /\ UNCHANGED <<key_cand, key_valid, key_text, key_parsed, sagVars, smVars, txVars, dbVars, idVars, fsVars>>

\* self.public(), the first call or a later one, followed by
\* validate_attestation on the result.
KeyPublic ==
    /\ key_pc \in {"made", "public"}
    /\ key_cand' = PrivateKey_public(key_private)
    /\ key_valid' = validate_attestation(PrivateKey_public(key_private))
    /\ key_pc' = "public"
    /\ UNCHANGED <<key_text, key_parsed, key_private, sagVars, smVars, txVars, dbVars, idVars, fsVars>>

NextNewKey == KeyNew \/ KeyPublic

SpecNewKey == Init /\ [][NextNewKey]_vars

\* ------------------------------------------- the signed-message text machine

\* String::from(&signed_message)
TxFormat ==
    /\ tx_pc = "init"
    /\ \E m \in TextValues :
         /\ tx_value' = m
         /\ tx_text' = SignedMessage_to_string(m)
    /\ tx_pc' = "formatted"
    /\ UNCHANGED <<tx_parsed, tx_verdict, sagVars, smVars, keyVars, dbVars, idVars, fsVars>>

\* The text with one whitespace character put before or after it.
Surrounded(text) ==
    {<<<<c>>>> \o text : c \in {32, 10}} \cup {text \o <<<<c>>>> : c \in {32, 10}}

\* The text without the lines from..to, for the lines after the second and
\* before the blank line that precedes the signature block.
WithoutLines(text) ==
    LET lines == split(text, <<10>>)
        len == Len(lines)
    IN UNION {{join(SubSeq(lines, 1, from - 1) \o SubSeq(lines, to + 1, len), <<10>>) :
                    to \in from..(len - 4)} : from \in 3..(len - 4)}

\* The text with bytes added to the signature block after the encoded
\* challenge and ring.
WithTrailingBytes(text, m) ==
    LET lines == split(text, <<10>>)
    IN {join([lines EXCEPT ![Len(lines) - 2] =
                    z85_encode(challenge_ring_serialize(m.challenge, m.ring) \o Str(extra))], <<10>>) :
            extra \in {<<0>>, <<7, 7>>}}

\* What a user can paste instead of the formatted text.
TxEdit ==
    /\ tx_pc = "formatted"
    /\ tx_text' \in Surrounded(tx_text) \cup WithoutLines(tx_text)
                        \cup WithTrailingBytes(tx_text, tx_value)
    /\ tx_pc' = "edited"
    /\ UNCHANGED <<tx_value, tx_parsed, tx_verdict, sagVars, smVars, keyVars, dbVars, idVars, fsVars>>

\* SignedMessage::from_str(text)
TxParse ==
    /\ tx_pc \in {"formatted", "edited"}
    /\ tx_parsed' = SignedMessage_from_str(tx_text)
    /\ tx_pc' = "parsed"
    /\ UNCHANGED <<tx_value, tx_text, tx_verdict, sagVars, smVars, keyVars, dbVars, idVars, fsVars>>

\* zebra_wasm verify_signature(text)
TxVerifySignature ==
    /\ tx_pc \in {"formatted", "edited"}
    /\ tx_verdict' = verify_signature(tx_text)
    /\ tx_pc' = "verified"
    /\ UNCHANGED <<tx_value, tx_text, tx_parsed, sagVars, smVars, keyVars, dbVars, idVars, fsVars>>

NextText == TxFormat \/ TxEdit \/ TxParse \/ TxVerifySignature

SpecText == Init /\ [][NextText]_vars

\* ------------------------------------------------- the store state machine

\* fs2's try_lock_exclusive on an open file: the lock is taken if no other
\* open file holds it, and refused at once otherwise.  Mutant: it is
\* always taken.
\* tempfile::NamedTempFile::new() makes the file in std::env::temp_dir();
\* "db_dir" is the directory of the database file.
NamedTempFile_new == "temp_dir"

\* Whether a rename from directory dir to the database path stays on one
\* filesystem.
same_filesystem(dir) == dir = "db_dir" \/ fs_tmp = "same"

try_lock_shared(holder, p) == Some(p)

try_lock_exclusive(holder, p) == IF holder = 0 THEN Some(p) ELSE None

Ret(p, status, value) ==
    [db_result EXCEPT ![p] = [op |-> db_call[p].op, status |-> status, value |-> value]]

\* An I/O operation succeeds or, while fewer than MaxFaults have, fails.
IoOutcomes == IF db_faults < MaxFaults THEN BOOLEAN ELSE {TRUE}

\* The error return of the call process p is in, after get_or_create_db_key
\* returned key (or was not reached): Database::new drops the lock file,
\* every other call leaves the handle as it is; the temporary file and
\* everything else the call held are dropped.
DbFail(p, key, fault) ==
    /\ db_faults' = IF fault THEN db_faults + 1 ELSE db_faults
    /\ db_result' = Ret(p, "err", None)
    /\ db_key' = [db_key EXCEPT ![p] = key]
    /\ IF db_call[p].op = "new"
       THEN /\ db_pc' = [db_pc EXCEPT ![p] = "none"]
            /\ db_handle' = [db_handle EXCEPT ![p].visible = NoView]
            /\ db_locks' = [l \in LockFiles |-> IF db_locks[l] = p THEN 0 ELSE db_locks[l]]
       ELSE /\ db_pc' = [db_pc EXCEPT ![p] = "open"]
            /\ db_handle' = [db_handle EXCEPT ![p].clean =
                                IF db_call[p].op \in Mutations THEN FALSE ELSE @]
            /\ UNCHANGED db_locks
    /\ db_call' = [db_call EXCEPT ![p] = NoCall]
    /\ UNCHANGED <<kc_entries, db_fs, db_closed>>

\* Database::new, 121-129: the directory and the lock file are created and
\* the lock file is opened.
DbOpenLockfile(p, path, user) ==
    /\ db_pc[p] = "none"
    /\ \E io_ok \in IoOutcomes :
         IF io_ok
         THEN /\ db_pc' = [db_pc EXCEPT ![p] = "lockfile"]
              /\ db_call' = [db_call EXCEPT ![p] =
                                [NoCall EXCEPT !.op = "new", !.pre_file = db_fs[path].file]]
              /\ db_handle' = [db_handle EXCEPT ![p] =
                                  [NoHandle EXCEPT !.path = path, !.user = user]]
              /\ db_result' = [db_result EXCEPT ![p] = NoResult]
              /\ UNCHANGED db_faults
         ELSE /\ db_result' = [db_result EXCEPT ![p] =
                                  [op |-> "new", status |-> "err", value |-> None]]
              /\ db_faults' = db_faults + 1
              /\ UNCHANGED <<db_pc, db_handle, db_call>>
    /\ db_key' = [db_key EXCEPT ![p] = NoKeyCall]
    /\ UNCHANGED <<kc_entries, db_locks, db_fs, db_closed,
                   sagVars, smVars, keyVars, txVars, idVars, fsVars>>

\* Database::new, 132: try_lock_exclusive on the lock file.
DbTryLock(p) ==
    /\ db_pc[p] = "lockfile"
    /\ LET lock == lockfile_path(db_handle[p].path)
           got == try_lock_exclusive(db_locks[lock], p)
       IN IF IsSome(got)
          THEN /\ db_locks' = [db_locks EXCEPT ![lock] = Unwrap(got)]
               /\ db_pc' = [db_pc EXCEPT ![p] = "key"]
               /\ UNCHANGED <<db_faults, kc_entries, db_fs, db_handle, db_call, db_key, db_result,
                              db_closed>>
          ELSE DbFail(p, db_key[p], FALSE)
    /\ UNCHANGED <<sagVars, smVars, keyVars, txVars, idVars, fsVars>>

\* Mutant of KrGetPassword: the entry is never found.
KrGetPassword_never_found(p) ==
    /\ db_pc[p] = "key"
    /\ db_pc' = [db_pc EXCEPT ![p] = "store"]
    /\ UNCHANGED <<dbVars_but_pc, sagVars, smVars, keyVars, txVars, idVars, fsVars>>

\* get_or_create_db_key, 14-24 and 36-39: the entry is looked up.
KrGetPassword(p) ==
    /\ db_pc[p] = "key"
    /\ LET entry == <<SERVICE_NAME, get_username(db_handle[p].user)>>
       IN \E io_ok \in IoOutcomes :
            IF ~io_ok THEN DbFail(p, KeyErr, TRUE)
            ELSE IF IsSome(kc_entries[entry])
            THEN /\ db_key' = [db_key EXCEPT ![p] = KeyOk(Unwrap(kc_entries[entry]))]
                 /\ db_call' = [db_call EXCEPT ![p].pw = Unwrap(kc_entries[entry])]
                 /\ db_pc' = [db_pc EXCEPT ![p] = "read"]
                 /\ UNCHANGED <<db_faults, kc_entries, db_locks, db_fs, db_handle, db_result, db_closed>>
            ELSE /\ db_pc' = [db_pc EXCEPT ![p] = "store"]
                 /\ UNCHANGED <<db_faults, kc_entries, db_locks, db_fs, db_handle, db_call, db_key,
                                db_result, db_closed>>
    /\ UNCHANGED <<sagVars, smVars, keyVars, txVars, idVars, fsVars>>

\* get_or_create_db_key, 25-35: no entry was found; a passphrase is
\* sampled and stored.
KrSetPassword(p, samples) ==
    /\ db_pc[p] = "store"
    /\ LET entry == <<SERVICE_NAME, get_username(db_handle[p].user)>>
       IN \E pw \in samples, io_ok \in IoOutcomes :
            IF ~io_ok THEN DbFail(p, KeyErr, TRUE)
            ELSE /\ kc_entries' = [kc_entries EXCEPT ![entry] = Some(pw)]
                 /\ db_key' = [db_key EXCEPT ![p] = KeyOk(pw)]
                 /\ db_call' = [db_call EXCEPT ![p].pw = pw]
                 /\ db_pc' = [db_pc EXCEPT ![p] = "read"]
                 /\ UNCHANGED <<db_faults, db_locks, db_fs, db_handle, db_result, db_closed>>
    /\ UNCHANGED <<sagVars, smVars, keyVars, txVars, idVars, fsVars>>

\* Mutant of Database_sign_key: a missing key is replaced by a stored one.
Database_sign_any_key(contents, my_key_index) ==
    IF my_key_index \in DOMAIN contents.private_keys
    THEN Some(contents.private_keys[my_key_index])
    ELSE IF DOMAIN contents.private_keys = {} THEN None
    ELSE Some(contents.private_keys[CHOOSE k \in DOMAIN contents.private_keys : TRUE])

\* Database::sign, 228-235: the private key stored under my_key_index, or
\* the error "Requested nonexistant key".
Database_sign_key(contents, my_key_index) ==
    IF my_key_index \in DOMAIN contents.private_keys
    THEN Some(contents.private_keys[my_key_index])
    ELSE None

\* The samples and the position SignedMessage::sign uses for a signer and
\* the others.
DbSignSamples(my_key, other_keys) ==
    LET others == filter_my_key(other_keys, PrivateKey_public(my_key))
        points == [i \in DOMAIN others |-> others[i].keypoint]
    IN {[a |-> s.a, responses |-> s.responses, index |-> i] :
          s \in SignSamples(Len(others) + 1),
          i \in binary_search_by_key(
                   make_ring(RistrettoPoint_mul_base(my_key.key), points, "point"),
                   RistrettoPoint_mul_base(my_key.key))}

\* get_contents, 148-189, and what the caller does with the contents:
\* Database::new builds the handle, sign signs, a mutation changes the
\* contents and enters write_contents.
DbRead(p) ==
    /\ db_pc[p] = "read"
    /\ \E io_ok \in IoOutcomes :
         LET call == db_call[p]
             read == read_contents(db_fs[db_handle[p].path].file, call.pw)
         IN IF ~io_ok \/ ~IsSome(read) THEN DbFail(p, db_key[p], ~io_ok)
            ELSE IF call.op = "new"
            THEN /\ db_handle' = [db_handle EXCEPT ![p].visible = get_visible(Unwrap(read))]
                 /\ db_pc' = [db_pc EXCEPT ![p] = "open"]
                 /\ db_result' = Ret(p, "ok", None)
                 /\ db_call' = [db_call EXCEPT ![p] = NoCall]
                 /\ UNCHANGED <<db_faults, kc_entries, db_locks, db_fs, db_key, db_closed>>
            ELSE IF call.op = "sign"
            THEN IF ~IsSome(Database_sign_key(Unwrap(read), call.arg.key))
                 THEN DbFail(p, db_key[p], FALSE)
                 ELSE /\ \E my_key \in {Unwrap(Database_sign_key(Unwrap(read), call.arg.key))} :
                         \E s \in DbSignSamples(my_key, call.arg.keys) :
                           db_result' = Ret(p, "ok",
                               Some(SignedMessage_sign(call.arg.message, my_key, call.arg.keys,
                                                       s.responses, s.a, s.index)))
                      /\ db_pc' = [db_pc EXCEPT ![p] = "open"]
                      /\ db_call' = [db_call EXCEPT ![p] = NoCall]
                      /\ UNCHANGED <<db_faults, kc_entries, db_locks, db_fs, db_handle, db_key, db_closed>>
            ELSE /\ db_call' = [db_call EXCEPT ![p].contents =
                                   apply_mutation(Unwrap(read), call.op, call.arg)]
                 /\ db_pc' = [db_pc EXCEPT ![p] = "write"]
                 /\ UNCHANGED <<db_faults, kc_entries, db_locks, db_fs, db_handle, db_key, db_result,
                                db_closed>>
    /\ UNCHANGED <<sagVars, smVars, keyVars, txVars, idVars, fsVars>>

\* The calls a holder of the handle makes, with their arguments.
DbCalls ==
    {[op |-> "set_verified", arg |-> [key |-> k, now |-> t]] : k \in DbTheirKeys, t \in Times}
    \cup {[op |-> o, arg |-> [key |-> k]] :
            o \in {"set_unverified", "delete_public_key"}, k \in DbTheirKeys}
    \cup {[op |-> "add_public_keys", arg |-> [keys |-> ks]] : ks \in SeqsUpTo(DbTheirKeys, 1)}
    \cup {[op |-> "import_private_key", arg |-> [key |-> k]] : k \in DbImportedKeys}
    \cup {[op |-> "new_private_key", arg |-> [name |-> n, email |-> DbEmail, scalar |-> k]] :
            n \in DbNames, k \in DbScalars}
    \cup {[op |-> "delete_private_key", arg |-> [key |-> k]] : k \in DbMyKeys}
    \cup {[op |-> "sign", arg |-> [message |-> <<77>>, key |-> k, keys |-> ks]] :
            k \in DbMyKeys, ks \in [1..1 -> DbTheirKeys]}

\* The calls of the contents machine: two contacts, B with the secret
\* scalar 1 and C with 2, so that the order of their names is not that of
\* their compressed keypoints, and own keys for the names A and C.
WideTheirKeys ==
    {PrivateKey_public(PrivateKey_new(Unwrap(Identity_new(n[1], DbEmail)), ScalarOf(n[2]),
                                      <<ScalarOf(n[2])>>, ATTESTATION_SAMPLE)) :
        n \in {<<<<66>>, 1>>, <<<<67>>, 2>>}}

WideNames == {<<65>>, <<67>>, <<10>>}

WideMyKeys ==
    {PrivateKey_public(PrivateKey_new(Unwrap(Identity_new(n, DbEmail)), k, <<k>>,
                                      ATTESTATION_SAMPLE)) :
        n \in WideNames \ {<<10>>}, k \in DbScalars}

MaxAdded == 2

WideCalls ==
    {[op |-> "set_verified", arg |-> [key |-> k, now |-> t]] : k \in WideTheirKeys, t \in Times}
    \cup {[op |-> o, arg |-> [key |-> k]] :
            o \in {"set_unverified", "delete_public_key"}, k \in WideTheirKeys}
    \cup {[op |-> "add_public_keys", arg |-> [keys |-> ks]] :
            ks \in SeqsUpTo(WideTheirKeys, MaxAdded)}
    \cup {[op |-> "import_private_key", arg |-> [key |-> k]] : k \in DbImportedKeys}
    \cup {[op |-> "new_private_key", arg |-> [name |-> n, email |-> DbEmail, scalar |-> k]] :
            n \in WideNames, k \in DbScalars}
    \cup {[op |-> "delete_private_key", arg |-> [key |-> k]] : k \in WideMyKeys}

\* A call on the handle begins.  new_private_key (277-282) returns an error
\* at once for a name or email no Identity can hold, and creates the key
\* otherwise.
DbCall(p, calls) ==
    /\ db_pc[p] = "open"
    /\ \E c \in calls :
         LET begun == [NoCall EXCEPT !.op = c.op, !.arg = c.arg,
                                     !.pre_file = db_fs[db_handle[p].path].file,
                                     !.pre_view = db_handle[p].visible]
         IN IF c.op # "new_private_key"
            THEN /\ db_call' = [db_call EXCEPT ![p] = begun]
                 /\ db_pc' = [db_pc EXCEPT ![p] = "key"]
                 /\ db_result' = [db_result EXCEPT ![p] = NoResult]
                 /\ UNCHANGED db_handle
            ELSE IF ~IsSome(Identity_new(c.arg.name, c.arg.email))
            THEN /\ db_result' = [db_result EXCEPT ![p] =
                                     [op |-> c.op, status |-> "err", value |-> None]]
                 /\ db_handle' = [db_handle EXCEPT ![p].clean = FALSE]
                 /\ UNCHANGED <<db_pc, db_call>>
            ELSE /\ db_call' = [db_call EXCEPT ![p] =
                                   [begun EXCEPT !.arg =
                                      [key |-> PrivateKey_new(
                                                   Unwrap(Identity_new(c.arg.name, c.arg.email)),
                                                   c.arg.scalar, <<c.arg.scalar>>,
                                                   ATTESTATION_SAMPLE)]]]
                 /\ db_pc' = [db_pc EXCEPT ![p] = "key"]
                 /\ db_result' = [db_result EXCEPT ![p] = NoResult]
                 /\ UNCHANGED db_handle
    /\ db_closed' = None
    /\ db_key' = [db_key EXCEPT ![p] = NoKeyCall]
    /\ UNCHANGED <<kc_entries, db_locks, db_fs, db_faults,
                   sagVars, smVars, keyVars, txVars, idVars, fsVars>>

\* write_contents, 195-213: the contents are serialized and encrypted into
\* a new temporary file.
DbWriteTmp(p) ==
    /\ db_pc[p] = "write"
    /\ \E io_ok \in IoOutcomes :
         IF ~io_ok THEN DbFail(p, db_key[p], TRUE)
         ELSE /\ db_call' = [db_call EXCEPT
                    ![p].tmp = age_encrypt(db_call[p].pw,
                                   SpartacusDatabaseContents_serialize(db_call[p].contents)),
                    ![p].tmp_flushed = "none",
                    ![p].tmp_dir = NamedTempFile_new]
              /\ db_pc' = [db_pc EXCEPT ![p] = "persist"]
              /\ UNCHANGED <<db_faults, kc_entries, db_locks, db_fs, db_handle, db_key, db_result,
                             db_closed>>
    /\ UNCHANGED <<sagVars, smVars, keyVars, txVars, idVars, fsVars>>

\* write_contents, 215: the temporary file is renamed over the database
\* path, which fails when the two are on different filesystems.  The
\* stable directory entry keeps naming what it named.
DbPersist(p) ==
    /\ db_pc[p] = "persist"
    /\ \E io_ok \in IoOutcomes :
         IF ~io_ok THEN DbFail(p, db_key[p], TRUE)
         ELSE IF ~same_filesystem(db_call[p].tmp_dir) THEN DbFail(p, db_key[p], FALSE)
         ELSE /\ db_fs' = [db_fs EXCEPT ![db_handle[p].path] =
                              [file |-> db_call[p].tmp, flushed |-> db_call[p].tmp_flushed,
                               linked |-> FALSE, old |-> durable(@)]]
              /\ db_pc' = [db_pc EXCEPT ![p] = "sync"]
              /\ UNCHANGED <<db_faults, kc_entries, db_locks, db_handle, db_call, db_key, db_result,
                             db_closed>>
    /\ UNCHANGED <<sagVars, smVars, keyVars, txVars, idVars, fsVars>>

\* write_contents, 216-218: sync_all on the renamed file, and then the
\* visible contents are replaced.  A sync_all that succeeds is taken to
\* have put the file's data and its directory entry on stable storage.
DbSyncAll(p) ==
    /\ db_pc[p] = "sync"
    /\ \E io_ok \in IoOutcomes :
         IF ~io_ok THEN DbFail(p, db_key[p], TRUE)
         ELSE /\ db_fs' = [db_fs EXCEPT ![db_handle[p].path] =
                              [file |-> @.file, flushed |-> "full", linked |-> TRUE,
                               old |-> EmptyFile]]
              /\ db_handle' = [db_handle EXCEPT ![p].visible = get_visible(db_call[p].contents),
                                                ![p].clean = TRUE]
              /\ db_pc' = [db_pc EXCEPT ![p] = "open"]
              /\ db_result' = Ret(p, "ok", None)
              /\ db_call' = [db_call EXCEPT ![p] = NoCall]
              /\ UNCHANGED <<db_faults, kc_entries, db_locks, db_key, db_closed>>
    /\ UNCHANGED <<sagVars, smVars, keyVars, txVars, idVars, fsVars>>

\* The handle is dropped: the lock file is closed.
DbDrop(p) ==
    /\ db_pc[p] = "open"
    /\ db_pc' = [db_pc EXCEPT ![p] = "none"]
    /\ db_locks' = [l \in LockFiles |-> IF db_locks[l] = p THEN 0 ELSE db_locks[l]]
    /\ db_closed' = IF db_handle[p].clean
                    THEN Some([path |-> db_handle[p].path, view |-> db_handle[p].visible])
                    ELSE None
    /\ db_handle' = [db_handle EXCEPT ![p] = NoHandle]
    /\ db_key' = [db_key EXCEPT ![p] = NoKeyCall]
    /\ db_result' = [db_result EXCEPT ![p] = NoResult]
    /\ UNCHANGED <<db_faults, kc_entries, db_fs, db_call,
                   sagVars, smVars, keyVars, txVars, idVars, fsVars>>

\* The operating system writes more of a file's data to stable storage.
later_extents(flushed) ==
    {Extents[j] : j \in {i \in DOMAIN Extents :
                            \E k \in DOMAIN Extents : Extents[k] = flushed /\ k < i}}

FsWritebackTmp(p) ==
    /\ db_pc[p] = "persist"
    /\ \E e \in later_extents(db_call[p].tmp_flushed) :
         db_call' = [db_call EXCEPT ![p].tmp_flushed = e]
    /\ UNCHANGED <<db_faults, kc_entries, db_locks, db_fs, db_pc, db_handle, db_key, db_result,
                   db_closed, sagVars, smVars, keyVars, txVars, idVars, fsVars>>

FsWriteback(path) ==
    /\ \E e \in later_extents(db_fs[path].flushed) :
         db_fs' = [db_fs EXCEPT ![path].flushed = e]
    /\ UNCHANGED <<db_faults, kc_entries, db_locks, db_pc, db_handle, db_call, db_key, db_result,
                   db_closed, sagVars, smVars, keyVars, txVars, idVars, fsVars>>

\* The operating system writes the directory entry of a rename.
FsCommit(path) ==
    /\ ~db_fs[path].linked
    /\ db_fs' = [db_fs EXCEPT ![path].linked = TRUE, ![path].old = EmptyFile]
    /\ UNCHANGED <<db_faults, kc_entries, db_locks, db_pc, db_handle, db_call, db_key, db_result,
                   db_closed, sagVars, smVars, keyVars, txVars, idVars, fsVars>>

\* The machine loses power: every process ends, and each path holds what
\* had reached stable storage.
Crash ==
    /\ db_fs' = [path \in DbPaths |->
                    [file |-> durable(db_fs[path]), flushed |-> "full", linked |-> TRUE,
                     old |-> EmptyFile]]
    /\ db_locks' = [l \in LockFiles |-> 0]
    /\ db_pc' = [p \in DbProcs |-> "none"]
    /\ db_handle' = [p \in DbProcs |-> NoHandle]
    /\ db_call' = [p \in DbProcs |-> NoCall]
    /\ db_key' = [p \in DbProcs |-> NoKeyCall]
    /\ db_result' = [p \in DbProcs |-> NoResult]
    /\ db_closed' = None
    /\ UNCHANGED <<kc_entries, db_faults, sagVars, smVars, keyVars, txVars, idVars, fsVars>>

NextStore ==
    \/ DbOpenLockfile(StoreProc, default_db_path, "")
    \/ DbTryLock(StoreProc)
    \/ KrGetPassword(StoreProc)
    \/ KrSetPassword(StoreProc, StorePassphrases)
    \/ DbRead(StoreProc)
    \/ DbCall(StoreProc, DbCalls)
    \/ DbWriteTmp(StoreProc)
    \/ FsWritebackTmp(StoreProc)
    \/ DbPersist(StoreProc)
    \/ DbSyncAll(StoreProc)
    \/ FsWriteback(default_db_path)
    \/ FsCommit(default_db_path)
    \/ DbDrop(StoreProc)
    \/ Crash

SpecStore == InitStore /\ [][NextStore]_vars

\* One process working on the store of a machine that does not crash and
\* has no input/output fault, with the calls of WideCalls.
InitContents ==
    /\ SagIdle /\ SmIdle /\ KeyIdle /\ TxIdle /\ IdIdle /\ fs_tmp = "same"
    /\ DbStart /\ db_faults = MaxFaults

NextContents ==
    \/ DbOpenLockfile(StoreProc, default_db_path, "")
    \/ DbTryLock(StoreProc)
    \/ KrGetPassword(StoreProc)
    \/ KrSetPassword(StoreProc, StorePassphrases)
    \/ DbRead(StoreProc)
    \/ DbCall(StoreProc, WideCalls)
    \/ DbWriteTmp(StoreProc)
    \/ DbPersist(StoreProc)
    \/ DbSyncAll(StoreProc)
    \/ DbDrop(StoreProc)

SpecContents == InitContents /\ [][NextContents]_vars

\* Processes opening and dropping databases, at any of the paths and in
\* any order of their steps.
NextLock ==
    \E p \in DbProcs :
        \/ \E path \in DbPaths, user \in OsUsernames : DbOpenLockfile(p, path, user)
        \/ DbTryLock(p)
        \/ KrGetPassword(p)
        \/ KrSetPassword(p, Passphrases)
        \/ DbRead(p)
        \/ DbDrop(p)

SpecLock == Init /\ [][NextLock]_vars

\* One process after another opening and dropping databases: the calls of
\* get_or_create_db_key follow each other, under either OS user.
NextKeyring ==
    \/ \E path \in DbPaths, user \in OsUsernames : DbOpenLockfile(StoreProc, path, user)
    \/ DbTryLock(StoreProc)
    \/ KrGetPassword(StoreProc)
    \/ KrSetPassword(StoreProc, Passphrases)
    \/ DbRead(StoreProc)
    \/ DbDrop(StoreProc)

SpecKeyring == Init /\ [][NextKeyring]_vars


\* ------------------------------------------------------------ the claims

\* C1: a signature produced by Signature::sign verifies against the message
\* it was made for, whatever the key, the other ring points (rings of one,
\* two, three members) and the samples a and r_i.
C1_SignThenVerify ==
    (sag_pc = "verified" /\ sag_checked.sig = sag_sig
        /\ sag_checked.message = sag_in.message) => sag_result = TRUE

\* A three-member ring whose signer is not the first member was signed and
\* verified against its message.
C1_Witness ==
    /\ sag_pc = "verified"
    /\ sag_checked.sig = sag_sig
    /\ sag_checked.message = sag_in.message
    /\ Len(sag_sig.ring_responses) = 3
    /\ sag_in.index = 2
    /\ sag_in.key # Scalar_ZERO
    /\ sag_result = TRUE

\* C2: Signature::verify returns false for every challenge and every
\* message when ring_responses is empty.
C2_EmptyRingRejected ==
    (sag_pc = "verified" /\ Len(sag_checked.sig.ring_responses) = 0)
        => sag_result = FALSE

\* C3 as stated: for every sequence of other PublicKeys that does not contain
\* the signer's own public key, the result of SignedMessage::sign verifies.
C3_SignedMessageVerifies ==
    (/\ sm_pc = "verified"
     /\ sm_checked = sm_signed
     /\ \A i \in DOMAIN sm_in.other_keys :
            sm_in.other_keys[i] # PrivateKey_public(sm_in.my_key))
        => sm_result = TRUE

\* C3 amended: the result of SignedMessage::sign verifies when every other
\* public key handed to it has a valid attestation (the signer's key being
\* one made by PrivateKey::new).
C3_ValidOthersVerify ==
    (/\ sm_pc = "verified"
     /\ sm_checked = sm_signed
     /\ \A i \in DOMAIN sm_in.other_keys : validate_attestation(sm_in.other_keys[i]))
        => sm_result = TRUE

\* A message signed with two other valid keys of different keypoints
\* verified.
C3_Witness ==
    /\ sm_pc = "verified"
    /\ sm_checked = sm_signed
    /\ Len(sm_in.other_keys) = 2
    /\ \A i \in DOMAIN sm_in.other_keys : validate_attestation(sm_in.other_keys[i])
    /\ Cardinality({sm_signed.ring[i][1].keypoint : i \in DOMAIN sm_signed.ring}) = 3
    /\ sm_result = TRUE

\* C4: for a signature produced by sign for message m, verify returns false
\* for every other message, after the challenge is replaced by a different
\* scalar, and after any one response scalar is replaced by a different one.
C4_TamperDetected ==
    (/\ sag_pc = "verified"
     /\ \/ sag_checked.sig = sag_sig /\ sag_checked.message # sag_in.message
        \/ /\ sag_checked.message = sag_in.message
           /\ sag_checked.sig \in ReplacedChallenge(sag_sig) \cup ReplacedResponse(sag_sig))
        => sag_result = FALSE

\* C5: SignedMessage::verify returns false whenever the attestation of a
\* ring member does not validate, and so, in a signed message that verifies,
\* after the name or the email of any one ring member is changed.
C5_IdentityBinding ==
    sm_pc = "verified" =>
        /\ (\E i \in DOMAIN sm_checked.ring : ~validate_attestation(sm_checked.ring[i][1]))
                => sm_result = FALSE
        /\ (/\ SignedMessage_verify(sm_signed)
            /\ sm_checked \in ReplacedName(sm_signed) \cup ReplacedEmail(sm_signed))
                => sm_result = FALSE

\* In a verifying signed message of three members the email of the last
\* member was changed, and verify returned false.
C5_Witness ==
    /\ sm_pc = "verified"
    /\ SignedMessage_verify(sm_signed)
    /\ Len(sm_signed.ring) = 3
    /\ sm_checked = [sm_signed EXCEPT !.ring[3][1].holder.email = <<102>>]
    /\ sm_result = FALSE

\* C6: validate_attestation returns true only if the attestation has exactly
\* one ring entry, the entry's point is the keypoint, and the signature
\* verifies over the holder's attestation image; an attestation of zero or of
\* two or more entries is rejected, also one that passes SAG verification.
C6_AttestationConditions ==
    key_pc # "init" =>
        /\ key_valid =>
            /\ Len(key_cand.holder_attestation.ring_responses) = 1
            /\ key_cand.holder_attestation.ring_responses[1][1] = key_cand.keypoint
            /\ Signature_verify(key_cand.holder_attestation,
                                bytes_for_attestation(key_cand.holder, key_cand.keypoint))
        /\ Len(key_cand.holder_attestation.ring_responses) # 1 => ~key_valid

\* A key whose attestation has two ring entries, the first for its keypoint,
\* and passes SAG verification over the attestation image was rejected.
C6_Witness ==
    /\ key_pc = "validated"
    /\ Len(key_cand.holder_attestation.ring_responses) = 2
    /\ key_cand.holder_attestation.ring_responses[1][1] = key_cand.keypoint
    /\ Signature_verify(key_cand.holder_attestation,
                        bytes_for_attestation(key_cand.holder, key_cand.keypoint))
    /\ key_valid = FALSE

\* C7: SignedMessage::from_str returns Ok or Err for every text, and so
\* verify_signature returns true or false: no text makes them panic.
C7_ParseNeverPanics ==
    /\ tx_pc = "parsed" => tx_parsed.kind \in {"Ok", "Err"}
    /\ tx_pc = "verified" => tx_verdict \in {"true", "false"}

\* C8: the text of a SignedMessage made by sign parses to that SignedMessage,
\* whatever the message text and the ring.
C8_SignedMessageRoundTrip ==
    (/\ tx_pc = "parsed"
     /\ Len(tx_value.ring) >= 1
     /\ tx_text = SignedMessage_to_string(tx_value))
        => tx_parsed = Ok(tx_value)

\* The text of a message of three ring members whose message text holds the
\* four infix lines parsed to the message.
C8_Witness ==
    /\ tx_pc = "parsed"
    /\ tx_value \in TextSigned
    /\ Len(tx_value.ring) = 3
    /\ tx_value.message = <<34, 34, 34, 10, 10>> \o SIGNED_MESSAGE_INFIX_THIRD_LINE \o <<10>>
    /\ tx_text = SignedMessage_to_string(tx_value)
    /\ tx_parsed = Ok(tx_value)

\* C9: the text of a PublicKey with a valid attestation parses to that
\* PublicKey, and the regex matches the text in exactly one way.
C9_PublicKeyRoundTrip ==
    (key_pc = "parsed" /\ key_valid) =>
        /\ key_parsed = Some(key_cand)
        /\ Cardinality(regex_matches(key_text)) = 1

\* The key of the holder named "A <b>" with the email "<e>" was printed and
\* parsed back.
C9_Witness ==
    /\ key_pc = "parsed"
    /\ key_valid
    /\ key_cand.holder.name = <<65, 32, 60, 98, 62>>
    /\ key_cand.holder.email = <<60, 101, 62>>
    /\ key_parsed = Some(key_cand)

\* C10: every text that from_str accepts is the text of the SignedMessage it
\* parses to.
C10_FormatInvertsParse ==
    (tx_pc = "parsed" /\ tx_parsed.kind = "Ok")
        => SignedMessage_to_string(tx_parsed.value) = tx_text

\* C11: PublicKey::from_str returns an error for every line that matches
\* the format but whose attestation does not validate, so every PublicKey it
\* returns passes validate_attestation.
C11_ParsedKeysAreValid ==
    key_pc = "parsed" =>
        /\ IsSome(key_parsed) => validate_attestation(Unwrap(key_parsed))
        /\ (regex_matches(key_text) # {} /\ ~key_valid) => key_parsed = None

\* The line of a key whose holder is not the one its attestation was made
\* for matched the format, decoded, and was rejected.
C11_Witness ==
    /\ key_pc = "parsed"
    /\ key_cand \in ReheldKeys
    /\ ~key_valid
    /\ regex_matches(key_text) # {}
    /\ IsSome(Signature_deserialize(Unwrap(hex_decode(regex_captures(key_text).attestation))))
    /\ key_parsed = None

\* C12: in the result of SignedMessage::sign the signer's PublicKey appears
\* exactly once, and the ring has one member more than `others` has elements
\* that differ from the signer's PublicKey.
C12_SignerOnce ==
    sm_pc # "init" =>
        LET my == PrivateKey_public(sm_in.my_key)
        IN /\ Cardinality({i \in DOMAIN sm_signed.ring : sm_signed.ring[i][1] = my}) = 1
           /\ Len(sm_signed.ring)
                = 1 + Cardinality({i \in DOMAIN sm_in.other_keys : sm_in.other_keys[i] # my})

\* The signer's own public key was handed over among the others, with one
\* other key, and the ring has two members.
C12_Witness ==
    /\ sm_pc = "signed"
    /\ Len(sm_in.other_keys) = 2
    /\ sm_in.other_keys[1] = PrivateKey_public(sm_in.my_key)
    /\ sm_in.other_keys[2] # PrivateKey_public(sm_in.my_key)
    /\ Len(sm_signed.ring) = 2

\* The PublicKeys of the ring of a signed message, in order.
RingKeys(m) == [i \in DOMAIN m.ring |-> m.ring[i][1]]

\* SignedMessage::sign called again, with the samples of SignSamples
\* numbered x.
SignAgain(message, my_key, other_keys, x) ==
    LET others == filter_my_key(other_keys, PrivateKey_public(my_key))
        point == RistrettoPoint_mul_base(my_key.key)
        ring == make_ring(point, [i \in DOMAIN others |-> others[i].keypoint], "point")
    IN SignedMessage_sign(message, my_key, other_keys,
                          [i \in 1..(Len(others) + 1) |-> ScalarOf(x + i)], ScalarOf(x),
                          CHOOSE i \in binary_search_by_key(ring, point) : TRUE)

\* The sequence in the opposite order.
Reversed(s) == [i \in DOMAIN s |-> s[Len(s) + 1 - i]]

\* C13: when the signer and the other keys, no key given twice, have
\* pairwise distinct keypoints, the ring lists exactly these keys, ascending by compressed keypoint; the
\* same list results for the others in another order, for other samples, and
\* when another member of the ring is the signer.
C13_RingOrder ==
    sm_pc # "init" =>
        LET my == PrivateKey_public(sm_in.my_key)
            members == {my} \cup {sm_in.other_keys[i] : i \in DOMAIN sm_in.other_keys}
            others == filter_my_key(sm_in.other_keys, my)
        IN (/\ \A k1, k2 \in members : k1 # k2 => k1.keypoint # k2.keypoint
            /\ \A i, j \in DOMAIN sm_in.other_keys :
                    i # j => sm_in.other_keys[i] # sm_in.other_keys[j]) =>
            /\ {sm_signed.ring[i][1] : i \in DOMAIN sm_signed.ring} = members
            /\ \A i, j \in DOMAIN sm_signed.ring :
                    i < j => compress(sm_signed.ring[i][1].keypoint)
                                < compress(sm_signed.ring[j][1].keypoint)
            /\ \A x \in 0..(Q - 1) :
                    RingKeys(SignAgain(sm_in.message, sm_in.my_key,
                                       Reversed(sm_in.other_keys), x)) = RingKeys(sm_signed)
            /\ \A k \in PrivateKeys :
                    PrivateKey_public(k) \in members =>
                        RingKeys(SignAgain(sm_in.message, k,
                                           [i \in DOMAIN others |->
                                                IF others[i] = PrivateKey_public(k)
                                                THEN my ELSE others[i]], 0))
                            = RingKeys(sm_signed)

\* Two other keys were handed over in descending order of their compressed
\* keypoints, the signer's keypoint lying between them, and the ring has the
\* three keys in ascending order.
C13_Witness ==
    /\ sm_pc = "signed"
    /\ Len(sm_in.other_keys) = 2
    /\ compress(sm_in.other_keys[2].keypoint) < compress(RistrettoPoint_mul_base(sm_in.my_key.key))
    /\ compress(RistrettoPoint_mul_base(sm_in.my_key.key)) < compress(sm_in.other_keys[1].keypoint)
    /\ \A i \in DOMAIN sm_in.other_keys : validate_attestation(sm_in.other_keys[i])
    /\ RingKeys(sm_signed)
        = <<sm_in.other_keys[2], PrivateKey_public(sm_in.my_key), sm_in.other_keys[1]>>

\* What the two files hold is the same: the same bytes, or the same
\* database contents when read with the passphrase.
same_contents(f, g, pw) ==
    f = g \/ (IsSome(read_contents(f, pw)) /\ read_contents(f, pw) = read_contents(g, pw))

\* The step in which the mutation process p is in returns an error.
MutationFails(p) ==
    /\ db_call[p].op \in Mutations
    /\ db_pc[p] # "open" /\ db_pc'[p] = "open"
    /\ db_result'[p].status = "err"

\* C14: whenever a store mutation returns an error, at whichever step it
\* failed, the database file holds what it held before the call and the
\* visible contents of the handle are what they were before the call.
C14_FailedMutationChangesNothing ==
    [][\A p \in DbProcs :
          MutationFails(p) =>
              /\ same_contents(db_fs'[db_handle[p].path].file, db_call[p].pre_file,
                               db_call[p].pw)
              /\ db_handle'[p].visible = db_call[p].pre_view]_vars

\* C15: at every point of a mutation, what a crash would leave at the
\* database path is the complete file from before the mutation or the
\* complete new file; never an empty or a partly written one.
C15_CrashLeavesPreOrPostImage ==
    \A p \in DbProcs :
        (db_call[p].op \in Mutations /\ db_pc[p] # "open") =>
            LET left == durable(db_fs[db_handle[p].path])
            IN \/ left = db_call[p].pre_file
               \/ db_pc[p] \in {"persist", "sync"} /\ left = db_call[p].tmp

\* Process p has taken the lock of its path and not closed the lock file:
\* it is in Database::new after try_lock_exclusive, or holds the handle.
PastLock(p) == db_pc[p] \notin {"none", "lockfile"}

\* C16: no two processes are past try_lock_exclusive on the same path at
\* the same time, so a second open of a path whose handle is alive fails;
\* and the attempt to lock never waits.
C16_ExclusiveLock ==
    /\ \A p \in DbProcs, q \in DbProcs :
          (p # q /\ PastLock(p) /\ PastLock(q)) => db_handle[p].path # db_handle[q].path
    /\ \A p \in DbProcs : db_pc[p] = "lockfile" => ENABLED DbTryLock(p)

\* One process holds the handle of a path, and another's Database::new on
\* the same path has returned an error although no I/O operation failed.
C16_Witness ==
    \E p \in DbProcs, q \in DbProcs :
        /\ p # q
        /\ db_pc[p] = "open"
        /\ db_pc[q] = "none" /\ db_result[q] = [op |-> "new", status |-> "err", value |-> None]
        /\ db_handle[q].path = db_handle[p].path
        /\ db_faults = 0

\* The last call of process p was a mutation and returned successfully.
MutationSucceeded(p) ==
    db_pc[p] = "open" /\ db_result[p].status = "ok" /\ db_result[p].op \in Mutations

\* C17: after a mutation has returned successfully, the visible contents
\* are the projection of the contents the database file holds:
\* my_public_keys is the key set of private_keys and their_public_keys is
\* the public_keys map; no member of my_public_keys is a PrivateKey.
C17_ViewIsProjection ==
    \A p \in DbProcs :
        MutationSucceeded(p) =>
            LET stored == read_contents(db_fs[db_handle[p].path].file, db_key[p].pw)
                view == db_handle[p].visible
            IN /\ IsSome(stored)
               /\ view.my_public_keys = DOMAIN Unwrap(stored).private_keys
               /\ view.their_public_keys = Unwrap(stored).public_keys
               /\ \A k \in view.my_public_keys :
                     /\ DOMAIN k = {"holder", "version", "keypoint", "holder_attestation"}
                     /\ k = PrivateKey_public(Unwrap(stored).private_keys[k])

\* A mutation has returned successfully on a store that then holds a
\* private key, a second private key and a verified public key.
C17_Witness ==
    \E p \in DbProcs :
        /\ MutationSucceeded(p)
        /\ Cardinality(db_handle[p].visible.my_public_keys) = 2
        /\ \E k \in DOMAIN db_handle[p].visible.their_public_keys :
              IsSome(db_handle[p].visible.their_public_keys[k].verified_date)

\* Database::new has returned a handle to process p.
Opened(p) == db_pc[p] = "open" /\ db_result[p] = [op |-> "new", status |-> "ok", value |-> None]

\* C18: when a handle whose last mutation succeeded is dropped and the
\* same path is opened again, the new handle's visible contents are those
\* the dropped handle had: the same my_public_keys and the same
\* their_public_keys with the same verification info.
C18_ReopenSameView ==
    \A p \in DbProcs :
        (Opened(p) /\ IsSome(db_closed) /\ Unwrap(db_closed).path = db_handle[p].path) =>
            db_handle[p].visible = Unwrap(db_closed).view

\* A handle that showed one of the user's keys and a verified public key
\* was dropped, and the path has been opened again.
C18_Witness ==
    \E p \in DbProcs :
        /\ Opened(p) /\ IsSome(db_closed)
        /\ Unwrap(db_closed).path = db_handle[p].path
        /\ Unwrap(db_closed).view.my_public_keys # {}
        /\ \E k \in DOMAIN Unwrap(db_closed).view.their_public_keys :
              IsSome(Unwrap(db_closed).view.their_public_keys[k].verified_date)
        /\ db_handle[p].visible = Unwrap(db_closed).view

\* The step in which the Database::sign process p is in returns.
SignReturns(p) ==
    db_call[p].op = "sign" /\ db_pc[p] # "open" /\ db_pc'[p] = "open"

\* C19: Database::sign with a public key that has no entry in the stored
\* private_keys returns an error and no SignedMessage; a sign that
\* succeeds returns a SignedMessage; and when sign returns, the database
\* file and the visible contents are what they were before the call.
C19_SignUnknownKeyFails ==
    [][\A p \in DbProcs :
          SignReturns(p) =>
              LET stored == read_contents(db_call[p].pre_file, db_call[p].pw)
              IN /\ (IsSome(stored) /\ db_call[p].arg.key \notin DOMAIN Unwrap(stored).private_keys)
                      => db_result'[p] = [op |-> "sign", status |-> "err", value |-> None]
                 /\ db_result'[p].status = "err" => db_result'[p].value = None
                 /\ db_result'[p].status = "ok" => IsSome(db_result'[p].value)
                 /\ db_fs'[db_handle[p].path] = db_fs[db_handle[p].path]
                 /\ db_fs'[db_handle[p].path].file = db_call[p].pre_file
                 /\ db_handle'[p].visible = db_call[p].pre_view]_vars

\* Database::sign has returned an error although no I/O operation failed
\* and the database file is a complete one that holds a private key: the
\* key asked for is not stored.
C19_Witness ==
    \E p \in DbProcs :
        /\ db_pc[p] = "open"
        /\ db_result[p] = [op |-> "sign", status |-> "err", value |-> None]
        /\ db_faults = 0
        /\ db_key[p].status = "ok"
        /\ IsSome(read_contents(db_fs[db_handle[p].path].file, db_key[p].pw))
        /\ db_handle[p].visible.my_public_keys # {}

\* The credential-store entry the calls of process p address.
EntryOf(p) == <<SERVICE_NAME, get_username(db_handle[p].user)>>

\* C20: a passphrase get_or_create_db_key has returned is the stored entry
\* and has 32 alphanumeric characters; an entry that exists is never
\* changed (so all successful calls return the same passphrase); and a
\* call that finds no entry and does not store one returns an error.
C20_GetOrCreate ==
    /\ [](\A p \in DbProcs :
            db_key[p].status = "ok" =>
                /\ kc_entries[EntryOf(p)] = Some(db_key[p].pw)
                /\ Len(db_key[p].pw) = 32
                /\ \A i \in DOMAIN db_key[p].pw : is_alphanumeric(db_key[p].pw[i]))
    /\ [][/\ \A e \in KeychainEntries : IsSome(kc_entries[e]) => kc_entries'[e] = kc_entries[e]
          /\ \A p \in DbProcs :
                (db_pc[p] = "store" /\ db_pc'[p] # "store" /\ ~IsSome(kc_entries'[EntryOf(p)]))
                    => db_key'[p] = KeyErr]_vars

\* The entries of both OS users exist and hold different passphrases, and
\* a call under the blank user name has returned the entry of the default
\* user.
C20_Witness ==
    /\ \A e \in KeychainEntries : IsSome(kc_entries[e])
    /\ \E e \in KeychainEntries, f \in KeychainEntries : kc_entries[e] # kc_entries[f]
    /\ \E p \in DbProcs :
          /\ db_handle[p].user = "" /\ db_pc[p] = "open"
          /\ db_key[p] = KeyOk(Unwrap(kc_entries[<<SERVICE_NAME, "zebra_user">>]))

\* C21: the public key of a key made by PrivateKey::new passes
\* validate_attestation, it carries the holder, the point of the secret
\* scalar and the attestation stored in the private key, and a later call
\* of public() returns the same PublicKey as the one before.
C21_NewKeyAttested ==
    /\ [](key_pc = "public" =>
            /\ key_valid
            /\ key_cand.holder = key_private.holder
            /\ key_cand.keypoint = RistrettoPoint_mul_base(key_private.key)
            /\ key_cand.holder_attestation = key_private.holder_attestation)
    /\ [][key_pc = "public" => key_cand' = key_cand]_vars

\* public() has been called on a key whose holder has a name of more than
\* one byte and whose secret scalar and attestation samples are not zero.
C21_Witness ==
    /\ key_pc = "public"
    /\ Len(as_bytes(key_private.holder.name)) > 1
    /\ key_private.key # Scalar_ZERO
    /\ key_private.holder_attestation.challenge # Scalar_ZERO
    /\ key_private.holder_attestation.ring_responses[1][2] \notin {Scalar_ZERO, key_private.key}

\* The bytes a constructor of BoringAscii was given.
GivenBytes ==
    IF id_pc \in {"from_str", "try_from"} THEN as_bytes(id_in.str) ELSE id_in.bytes

\* C22: from_bytes, from_str, try_from and Borsh deserialization return a
\* BoringAscii exactly when every byte given lies in 0x21..0x7E, and then
\* it holds the bytes given, unchanged; the empty string is accepted.
C22_BoringAsciiRange ==
    id_pc \in {"from_bytes", "from_str", "try_from", "deserialize"} =>
        IF \A i \in DOMAIN GivenBytes : 33 <= GivenBytes[i] /\ GivenBytes[i] <= 126
        THEN id_out = Some(GivenBytes)
        ELSE id_out = None

\* Borsh deserialization has rejected a string whose only bad byte is the
\* space that follows a good byte.
C22_Witness ==
    /\ id_pc = "deserialize"
    /\ id_in.bytes = <<65, 32>>
    /\ id_out = None

\* The characters U+0000..U+001F and U+007F..U+009F.
HasControl(name) == \E i \in DOMAIN name : name[i] \in (0..31) \cup (127..159)

Printable(bytes) == \A i \in DOMAIN bytes : bytes[i] \in 33..126

\* C23: an Identity returned by Identity::new, by Borsh deserialization or
\* inside a parsed PublicKey has no control character in its name and only
\* bytes 0x21..0x7E in its email; Identity::new returns None exactly when
\* the name has a control character or the email a byte outside that
\* range, and else the Identity of that name and email.
C23_IdentityInvariant ==
    /\ (id_pc \in {"new", "id_deserialize", "parse"} /\ IsSome(id_out)) =>
            /\ ~HasControl(Unwrap(id_out).name)
            /\ Printable(Unwrap(id_out).email)
    /\ id_pc = "new" =>
            IF HasControl(id_in.name) \/ ~Printable(as_bytes(id_in.email)) THEN id_out = None
            ELSE id_out = Some([name |-> id_in.name, email |-> id_in.email])

\* Borsh deserialization has rejected a buffer whose name is the control
\* character U+0085 and whose email is "e".
C23_Witness ==
    /\ id_pc = "id_deserialize"
    /\ id_in.name = <<133>>
    /\ id_in.bytes = <<101>>
    /\ id_out = None

\* C24: whenever a mutation renames its temporary file over the database
\* path, the whole of that file has reached stable storage before (it has
\* been fsynced).
C24_TmpSyncedBeforeRename ==
    [][\A p \in DbProcs :
          (db_pc[p] = "persist" /\ db_pc'[p] = "sync") => db_call[p].tmp_flushed = "full"]_vars

\* C25: the temporary file of a mutation is in the directory of the
\* database file, and no mutation fails at the rename without an
\* input/output fault.
C25_TmpInDatabaseDirectory ==
    /\ [](\A p \in DbProcs :
            db_pc[p] \in {"persist", "sync"} => db_call[p].tmp_dir = "db_dir")
    /\ [][\A p \in DbProcs :
            (db_pc[p] = "persist" /\ db_pc'[p] = "open" /\ db_result'[p].status = "err")
                => db_faults' # db_faults]_vars

\* The second half of C25 alone: no mutation fails at the rename without an
\* input/output fault.
RenameNeverCrossesFilesystems ==
    [][\A p \in DbProcs :
            (db_pc[p] = "persist" /\ db_pc'[p] = "open" /\ db_result'[p].status = "err")
                => db_faults' # db_faults]_vars

\* C26: in the result of SignedMessage::sign the ring has one entry per
\* entry of the Signature the SAG signer made, entry i holding a PublicKey
\* whose keypoint is the point of the Signature's entry i and the response
\* of that entry, so that signature() rebuilds exactly that Signature;
\* also when members of `others` share a keypoint.
C26_RingAlignment ==
    sm_pc # "init" =>
        LET others == filter_my_key(sm_in.other_keys, PrivateKey_public(sm_in.my_key))
            sig == Signature_sign(as_bytes(sm_in.message), sm_in.my_key.key,
                                  [i \in DOMAIN others |-> others[i].keypoint],
                                  sm_in.responses, sm_in.a, sm_in.index)
        IN /\ Len(sm_signed.ring) = Len(sig.ring_responses)
           /\ \A i \in DOMAIN sm_signed.ring :
                 /\ sm_signed.ring[i][1].keypoint = sig.ring_responses[i][1]
                 /\ sm_signed.ring[i][2] = sig.ring_responses[i][2]
           /\ SignedMessage_signature(sm_signed) = sig

\* Two different keys with the same keypoint, which is not the signer's,
\* were handed over as the others, and the ring has three members.
C26_Witness ==
    /\ sm_pc = "signed"
    /\ Len(sm_in.other_keys) = 2
    /\ sm_in.other_keys[1] # sm_in.other_keys[2]
    /\ sm_in.other_keys[1].keypoint = sm_in.other_keys[2].keypoint
    /\ sm_in.other_keys[1].keypoint # RistrettoPoint_mul_base(sm_in.my_key.key)
    /\ Len(sm_signed.ring) = 3

\* The entries of the two maps in the buffer a mutation has serialized:
\* private_keys (m = 2) and public_keys (m = 3).
WrittenEntries(p, m) == db_call[p].tmp.plain[m]

Writing(p) == db_pc[p] \in {"persist", "sync"}

LexLess(a, b) ==
    \E k \in 0..Len(a) :
        /\ k <= Len(b)
        /\ \A x \in 1..k : a[x] = b[x]
        /\ IF k = Len(a) THEN k < Len(b) ELSE k < Len(b) /\ a[k + 1] < b[k + 1]

\* The holder's name decides, then the email, then the compressed keypoint.
HolderFirst(a, b) ==
    IF a.holder.name # b.holder.name THEN LexLess(a.holder.name, b.holder.name)
    ELSE IF a.holder.email # b.holder.email THEN LexLess(a.holder.email, b.holder.email)
    ELSE compress(a.keypoint) < compress(b.keypoint)

C28_OtherPathNeverBlocks ==
    /\ [](\A a \in DbPaths, b \in DbPaths :
            (a # b /\ \E p \in DbProcs : PastLock(p) /\ db_handle[p].path = a)
                => lockfile_path(a) # lockfile_path(b))
    /\ [][\A q \in DbProcs :
            (db_pc[q] = "lockfile" /\ db_pc'[q] = "none") =>
                \E p \in DbProcs \ {q} :
                    PastLock(p) /\ db_handle[p].path = db_handle[q].path]_vars

\* The second half of C28 alone.
LockFailsOnlyForSamePath ==
    [][\A q \in DbProcs :
            (db_pc[q] = "lockfile" /\ db_pc'[q] = "none") =>
                \E p \in DbProcs \ {q} :
                    PastLock(p) /\ db_handle[p].path = db_handle[q].path]_vars

\* The private_keys map a file holds, for a file that can be read.
StoredPrivateKeys(file) ==
    IF IsSome(read_contents(file, file.pw))
    THEN Unwrap(read_contents(file, file.pw)).private_keys
    ELSE BTreeMap_new

\* C29: in the database file, in what a crash would leave of it, and in
\* the temporary file of a mutation, every entry of private_keys is keyed
\* by the public key of its private key; and a sign that succeeds returns
\* a SignedMessage whose ring holds the public key it was called with.
C29_KeyedByOwnPublicKey ==
    /\ [](\A path \in DbPaths, p \in DbProcs :
            \A file \in {db_fs[path].file, durable(db_fs[path]), db_call[p].tmp} :
                \A k \in DOMAIN StoredPrivateKeys(file) :
                    k = PrivateKey_public(StoredPrivateKeys(file)[k]))
    /\ [][\A p \in DbProcs :
            (SignReturns(p) /\ db_result'[p].status = "ok") =>
                \E i \in DOMAIN Unwrap(db_result'[p].value).ring :
                    Unwrap(db_result'[p].value).ring[i][1] = db_call[p].arg.key]_vars

\* A sign has succeeded on a store that holds two private keys.
C29_Witness ==
    \E p \in DbProcs :
        /\ db_pc[p] = "open"
        /\ db_result[p].op = "sign" /\ db_result[p].status = "ok"
        /\ Cardinality(DOMAIN StoredPrivateKeys(db_fs[db_handle[p].path].file)) = 2
        /\ \E i \in DOMAIN Unwrap(db_result[p].value).ring :
              Unwrap(db_result[p].value).ring[i][1] \in DbMyKeys

\* add_public_keys returns successfully.
AddReturns(p) ==
    /\ db_call[p].op = "add_public_keys"
    /\ db_pc[p] # "open" /\ db_pc'[p] = "open"
    /\ db_result'[p].status = "ok"

\* C30: when add_public_keys(ks) has returned successfully, the stored
\* public_keys holds the keys it held and those of ks, every key of ks
\* without a verification date, also one that had one, and every other key
\* with the verification info it had; private_keys is what it was; and
\* the view shows the stored public_keys.
C30_AddPublicKeysResets ==
    [][\A p \in DbProcs :
          AddReturns(p) =>
              LET before == Unwrap(read_contents(db_call[p].pre_file, db_call[p].pw))
                  after == Unwrap(read_contents(db_fs'[db_handle[p].path].file, db_call[p].pw))
                  ks == {db_call[p].arg.keys[i] : i \in DOMAIN db_call[p].arg.keys}
              IN /\ DOMAIN after.public_keys = (DOMAIN before.public_keys) \cup ks
                 /\ \A k \in ks : after.public_keys[k] = [verified_date |-> None]
                 /\ \A k \in (DOMAIN before.public_keys) \ ks :
                        after.public_keys[k] = before.public_keys[k]
                 /\ after.private_keys = before.private_keys
                 /\ db_handle'[p].visible.their_public_keys = after.public_keys]_vars

\* add_public_keys with one key has replaced the file of a store that held
\* two verified public keys and a private key: the key given is now stored
\* without a date and the other with its date.
C30_Witness ==
    \E p \in DbProcs :
        /\ db_call[p].op = "add_public_keys" /\ db_pc[p] = "sync"
        /\ Len(db_call[p].arg.keys) = 1
        /\ LET before == Unwrap(read_contents(db_call[p].pre_file, db_call[p].pw))
               now == Unwrap(read_contents(db_fs[db_handle[p].path].file, db_call[p].pw))
               k == db_call[p].arg.keys[1]
           IN /\ Cardinality(DOMAIN before.public_keys) = 2
              /\ \A x \in DOMAIN before.public_keys : IsSome(before.public_keys[x].verified_date)
              /\ before.private_keys # BTreeMap_new
              /\ now.public_keys[k] = [verified_date |-> None]
              /\ \E x \in DOMAIN now.public_keys : IsSome(now.public_keys[x].verified_date)

====
